---- MODULE Spec2Model ----
(***************************************************************************)
(* A model of readmerunner: the section parser (parseSections), the tag    *)
(* and prompt directive parsers, the persistent-shell runners and the      *)
(* orchestrator RunMarkdown.                                               *)
(*                                                                         *)
(* Text is modelled as a sequence of tokens.  A token is one character     *)
(* (" ", "#", "(", ")", "A", "a", "!", ...) or one lexeme whose inside the *)
(* code never looks into ("[tags]:#", "[prompt]:#", codeFence, a tag word, a   *)
(* fence language, one shell command).  A line is a sequence of tokens, a  *)
(* document a sequence of lines.                                           *)
(***************************************************************************)
EXTENDS Integers, Sequences, FiniteSets, TLC

VARIABLES
    \* ---- parseSections, pass 1 and pass 2 (readmerunner/parser.go) ----
    doc,          \* the lines the scanner has returned so far
    kinds,        \* history: the branch of the scan loop each line of doc took
    scan,         \* sections, current, pendingTags, inCodeBlock
    pc,           \* "scan" | "done" (parser), or the orchestrator's position
    start,        \* parseSections' start argument
    userTags,     \* parseSections' userTags argument
    filtered,     \* the value parseSections returned
    picked,       \* history: the index in the segmentation of each returned section
    \* ---- RunMarkdown (readmerunner/parser.go), runners (readmerunner/runner.go) ----
    i,            \* RunMarkdown's loop index into sections (here 1-based)
    w,            \* the output sink: what has been written, in order
    asked,        \* history: the questions put to promptFunc, in order
    lastAns,      \* history: promptFunc's most recent return value
    ret,          \* "none" while running, then RunMarkdown's return value
    environ,      \* the process environment (os.Setenv)
    runners,      \* bashRunner, shellRunner, verifyRunner
    depth,        \* processCodeBlock's recursion depth
    hist,         \* history: os.Setenv calls and snippet executions, in order
    exited,       \* history: whether, and when, the operator chose exit
    \* ---- GetRunner called from several goroutines (readmerunner/runner.go) ----
    race          \* the package variables, the processes started, each caller's position

parseVars == <<kinds, scan, picked>>

runVars == <<i, w, asked, lastAns, ret, environ, runners, depth, hist, exited, race>>

vars == <<doc, kinds, scan, pc, start, userTags, filtered, picked,
          i, w, asked, lastAns, ret, environ, runners, depth, hist, exited, race>>

(***************************************************************************)
(* Bounds.                                                                 *)
(***************************************************************************)
MaxLines == 4

MaxBlocks == 3

MaxAsk == 5

MaxRuns == 3

MaxWrites == 6

MaxPrompts == 2

MaxTagLines == 2

MaxHeading == 3

MaxThreads == 2
MaxSegLines == 3

\* codeFence := "```" (three backticks, written here as one token)
codeFence == "<fence>"

(***************************************************************************)
(* strings.* helpers, on token sequences.                                  *)
(***************************************************************************)
RECURSIVE TrimLeftSpace(_)
TrimLeftSpace(s) ==
    IF s # <<>> /\ Head(s) = " " THEN TrimLeftSpace(Tail(s)) ELSE s

RECURSIVE TrimRightSpace(_)
TrimRightSpace(s) ==
    IF s # <<>> /\ s[Len(s)] = " "
    THEN TrimRightSpace(SubSeq(s, 1, Len(s) - 1))
    ELSE s

TrimSpace(s) == TrimRightSpace(TrimLeftSpace(s))

HasPrefix(s, tok) == s # <<>> /\ s[1] = tok

Fields(s) == SelectSeq(s, LAMBDA t : t # " ")

RECURSIVE TrimLeftHash(_)
TrimLeftHash(s) ==
    IF s # <<>> /\ Head(s) = "#" THEN TrimLeftHash(Tail(s)) ELSE s

UpperCase == {"A", "B", "E", "X", "R", "S"}

ToLowerChar(c) ==
    CASE c = "A" -> "a"
      [] c = "B" -> "b"
      [] c = "E" -> "e"
      [] c = "X" -> "x"
      [] c = "R" -> "r"
      [] c = "S" -> "s"
      [] OTHER -> c

ToLower(s) == [k \in 1..Len(s) |-> ToLowerChar(s[k])]

IsLetter(c) == c \in UpperCase \cup {"a", "b", "e", "i", "q", "r", "s", "t", "x", "z"}

IsDigit(c) == c \in {"0", "1", "2"}

(***************************************************************************)
(* getHeadingText and normalizeAnchor.                                     *)
(***************************************************************************)
RECURSIVE LeadingHashes(_)
LeadingHashes(s) ==
    IF s # <<>> /\ Head(s) = "#" THEN 1 + LeadingHashes(Tail(s)) ELSE 0

getHeadingText(header) ==
    [clean |-> TrimSpace(TrimLeftHash(header)), level |-> LeadingHashes(header)]

RECURSIVE CollapseDashes_Pairs(_)
CollapseDashes_Pairs(s) ==
    IF Len(s) < 2 THEN s
    ELSE IF s[1] = "-" /\ s[2] = "-" THEN <<"-">> \o CollapseDashes_Pairs(Tail(Tail(s)))
    ELSE <<s[1]>> \o CollapseDashes_Pairs(Tail(s))

RECURSIVE CollapseDashes(_)
CollapseDashes(s) ==
    IF Len(s) < 2 THEN s
    ELSE IF s[1] = "-" /\ s[2] = "-" THEN CollapseDashes(Tail(s))
    ELSE <<s[1]>> \o CollapseDashes(Tail(s))

normalizeAnchor(header) ==
    LET lower == ToLower(header)
        b == SelectSeq(lower,
                 LAMBDA r : IsLetter(r) \/ IsDigit(r) \/ r = " " \/ r = "-")
        anchor == [k \in 1..Len(b) |-> IF b[k] = " " THEN "-" ELSE b[k]]
    IN  CollapseDashes(anchor)

(***************************************************************************)
(* tags.go                                                                 *)
(***************************************************************************)
\* ^\[tags\]:#\s*\(\s*([^)]+)\s*\)$ and strings.Fields of group 1
parseTags(line) ==
    LET rest == IF line = <<>> THEN <<>> ELSE TrimLeftSpace(Tail(line))
        n == Len(rest)
    IN  IF /\ HasPrefix(line, "[tags]:#")
           /\ n >= 3
           /\ rest[1] = "("
           /\ rest[n] = ")"
           /\ \A k \in 2..(n - 1) : rest[k] # ")"
        THEN [err |-> FALSE, tags |-> Fields(SubSeq(rest, 2, n - 1))]
        ELSE [err |-> TRUE, tags |-> <<>>]

checkForAlwaysTag(tags) == \E k \in 1..Len(tags) : tags[k] = "always"

checkSectionTag_EmptySection(sectionTags, runTags) ==
    \/ Len(runTags) = 0
    \/ Len(sectionTags) = 0
    \/ LET rt == Append(runTags, "always")
       IN  \E a \in 1..Len(sectionTags) : \E b \in 1..Len(rt) :
               sectionTags[a] = rt[b]

checkSectionTag(sectionTags, runTags) ==
    IF Len(runTags) = 0 THEN TRUE
    ELSE LET rt == Append(runTags, "always")
         IN  \E a \in 1..Len(sectionTags) : \E b \in 1..Len(rt) :
                 sectionTags[a] = rt[b]

(***************************************************************************)
(* parseSections, pass 1: one iteration of the scanner loop.               *)
(***************************************************************************)
NewSection(type, lines, tags) == [Type |-> type, Lines |-> lines, Tags |-> tags]

ScanInit ==
    [sections |-> <<>>,
     current |-> NewSection("Text", <<>>, <<>>),
     pendingTags |-> <<>>,
     inCodeBlock |-> FALSE]

Flush_Always(st) == Append(st.sections, st.current)

\* if len(current.Lines) > 0 { sections = append(sections, current) }
Flush(st) ==
    IF Len(st.current.Lines) > 0 THEN Append(st.sections, st.current)
    ELSE st.sections

\* The branch of the loop body a line takes, in the order the code tests them.
LineKind(st, line) ==
    LET trimmed == TrimSpace(line)
    IN  IF HasPrefix(trimmed, "[tags]:#") THEN "tags"
        ELSE IF st.inCodeBlock
             THEN (IF HasPrefix(trimmed, codeFence) THEN "fence_close" ELSE "code")
        ELSE IF HasPrefix(trimmed, codeFence) THEN "fence_open"
        ELSE IF HasPrefix(trimmed, "#") THEN "header"
        ELSE IF HasPrefix(trimmed, "[prompt]:#") THEN "prompt"
        ELSE "text"

HeaderBranch_KeepPending(st, line) ==
    [st EXCEPT !.sections = Flush(st),
               !.current = NewSection("Header", <<line>>, st.pendingTags)]

HeaderBranch(st, line) ==
    [st EXCEPT !.sections = Flush(st),
               !.current = NewSection("Header", <<line>>, st.pendingTags),
               !.pendingTags = <<>>]

ScanStep(st, line) ==
    LET kind == LineKind(st, line)
        trimmed == TrimSpace(line)
    IN  CASE kind = "tags" ->
               LET r == parseTags(trimmed)
               IN  IF ~r.err
                   THEN [st EXCEPT !.pendingTags = st.pendingTags \o r.tags,
                                   !.current.Tags = st.pendingTags \o r.tags]
                   ELSE st
          [] kind = "code" ->
               [st EXCEPT !.current.Lines = Append(@, line)]
          [] kind = "fence_close" ->
               [st EXCEPT !.inCodeBlock = FALSE,
                          !.sections = Append(@,
                              [st.current EXCEPT !.Lines = Append(@, line)]),
                          !.current = NewSection("Text", <<>>, st.pendingTags)]
          [] kind = "fence_open" ->
               [st EXCEPT !.sections = Flush(st),
                          !.current = NewSection("Code", <<line>>, st.pendingTags),
                          !.inCodeBlock = TRUE]
          [] kind = "header" -> HeaderBranch(st, line)
          [] kind = "prompt" ->
               [st EXCEPT !.sections = Append(Flush(st),
                              NewSection("Prompt", <<line>>, st.pendingTags)),
                          !.current = NewSection("Text", <<>>, <<>>)]
          [] OTHER ->
               [st EXCEPT !.current.Lines = Append(@, line)]

RECURSIVE ScanAll(_, _)
ScanAll(st, lines) ==
    IF lines = <<>> THEN st ELSE ScanAll(ScanStep(st, Head(lines)), Tail(lines))

\* The segmentation: the loop over every line, then the flush at end of input.
Segment(lines) == Flush(ScanAll(ScanInit, lines))

(***************************************************************************)
(* parseSections, pass 2: the filter loop.                                 *)
(***************************************************************************)
HeaderMatches(sec, anchor) ==
    /\ sec.Type = "Header"
    /\ normalizeAnchor(getHeadingText(sec.Lines[1]).clean) = anchor

FilterInit(anchor) == [started |-> (anchor = <<>>), filtered |-> <<>>, picked |-> <<>>]

\* One iteration: acc is (started, filtered); picked remembers which index
\* of the segmentation each appended section came from.
FilterStep_AlwaysNeedsStart(acc, sec, k, anchor, tags) ==
    LET started == acc.started \/ HeaderMatches(sec, anchor)
        keep == started /\ (checkForAlwaysTag(sec.Tags) \/ Len(tags) = 0
                                \/ checkSectionTag(sec.Tags, tags))
    IN  [started |-> started,
         filtered |-> IF keep THEN Append(acc.filtered, sec) ELSE acc.filtered,
         picked |-> IF keep THEN Append(acc.picked, k) ELSE acc.picked]

FilterStep_StartAfterHeader(acc, sec, k, anchor, tags) ==
    LET keep == \/ checkForAlwaysTag(sec.Tags)
                \/ acc.started /\ (Len(tags) = 0 \/ checkSectionTag(sec.Tags, tags))
    IN  [started |-> acc.started \/ HeaderMatches(sec, anchor),
         filtered |-> IF keep THEN Append(acc.filtered, sec) ELSE acc.filtered,
         picked |-> IF keep THEN Append(acc.picked, k) ELSE acc.picked]

FilterStep_AlwaysTwice(acc, sec, k, anchor, tags) ==
    LET started == IF ~acc.started /\ sec.Type = "Header"
                   THEN normalizeAnchor(getHeadingText(sec.Lines[1]).clean) = anchor
                   ELSE acc.started
        always == IF checkForAlwaysTag(sec.Tags) THEN <<sec>> ELSE <<>>
        byStart == IF started /\ (Len(tags) = 0 \/ checkSectionTag(sec.Tags, tags))
                   THEN <<sec>> ELSE <<>>
    IN  [started |-> started,
         filtered |-> acc.filtered \o always \o byStart,
         picked |-> acc.picked \o [n \in 1..Len(always \o byStart) |-> k]]

FilterStep(acc, sec, k, anchor, tags) ==
    LET started == IF ~acc.started /\ sec.Type = "Header"
                   THEN normalizeAnchor(getHeadingText(sec.Lines[1]).clean) = anchor
                   ELSE acc.started
        keep == IF checkForAlwaysTag(sec.Tags) THEN TRUE
                ELSE IF started
                     THEN (IF Len(tags) > 0 THEN checkSectionTag(sec.Tags, tags)
                           ELSE TRUE)
                ELSE FALSE
    IN  [started |-> started,
         filtered |-> IF keep THEN Append(acc.filtered, sec) ELSE acc.filtered,
         picked |-> IF keep THEN Append(acc.picked, k) ELSE acc.picked]

RECURSIVE FilterAll(_, _, _, _, _)
FilterAll(acc, secs, k, anchor, tags) ==
    IF k > Len(secs) THEN acc
    ELSE FilterAll(FilterStep(acc, secs[k], k, anchor, tags), secs, k + 1, anchor, tags)

\* if started { return filtered } else { return nil }
FilterReturn_IgnoreStarted(acc) == [filtered |-> acc.filtered, picked |-> acc.picked]

FilterReturn(acc) ==
    IF acc.started THEN [filtered |-> acc.filtered, picked |-> acc.picked]
    ELSE [filtered |-> <<>>, picked |-> <<>>]

FilterSections(secs, anchor, tags) ==
    FilterReturn(FilterAll(FilterInit(anchor), secs, 1, anchor, tags))

parseSections(mdContent, anchor, tags) ==
    FilterSections(Segment(mdContent), anchor, tags).filtered

(***************************************************************************)
(* prompt.go                                                               *)
(***************************************************************************)
RECURSIVE PrefixLenIn(_, _)
PrefixLenIn(s, S) ==
    IF s # <<>> /\ Head(s) \in S THEN 1 + PrefixLenIn(Tail(s), S) ELSE 0

RECURSIVE PrefixLenNotIn(_, _)
PrefixLenNotIn(s, S) ==
    IF s # <<>> /\ Head(s) \notin S THEN 1 + PrefixLenNotIn(Tail(s), S) ELSE 0

Drop(s, n) == SubSeq(s, n + 1, Len(s))

\* \w+ : the tokens made of letters, digits and underscores only
WordToks ==
    UpperCase \cup {"a", "b", "e", "i", "q", "r", "s", "t", "x", "y", "z", "n",
                    "0", "1", "2", "NAME", "foo", "bar", "baz", "always",
                    "bash", "sh", "shell", "verify", "py"}

\* "([^"]+)" : a double-quoted, non-empty text is one token
QuotedToks == {"\"q\""}

\* \s*(\S+)?\s*\)$ : an optional run of non-space tokens, then the closing
\* parenthesis at the end of the line
PromptTail_OpenEnded(r) ==
    LET n == PrefixLenNotIn(r, {" ", ")"})
    IN  [ok |-> TrimSpace(Drop(r, n)) \in {<<")">>, <<>>}, default |-> SubSeq(r, 1, n)]

PromptTail(r) ==
    LET n == PrefixLenNotIn(r, {" "})
    IN  IF n = Len(r)
        THEN [ok |-> n >= 1 /\ r[n] = ")", default |-> SubSeq(r, 1, n - 1)]
        ELSE [ok |-> TrimLeftSpace(Drop(r, n)) = <<")">>, default |-> SubSeq(r, 1, n)]

NoPrompt == [err |-> TRUE, VarName |-> <<>>, Text |-> <<>>, Options |-> <<>>, Default |-> <<>>]

\* ^\[prompt\]:#\s*\(\s*(\w+)\s+"([^"]+)"\s*(\[[^\]]*\])?\s*(\S+)?\s*\)$
parsePrompt(line) ==
    IF ~HasPrefix(line, "[prompt]:#") THEN NoPrompt
    ELSE
    LET r1 == TrimLeftSpace(Tail(line))
    IN  IF ~HasPrefix(r1, "(") THEN NoPrompt
        ELSE
        LET r2 == TrimLeftSpace(Tail(r1))
            nName == PrefixLenIn(r2, WordToks)
            r3 == Drop(r2, nName)
            nSp == PrefixLenIn(r3, {" "})
            r4 == Drop(r3, nSp)
        IN  IF nName = 0 \/ nSp = 0 \/ r4 = <<>> \/ Head(r4) \notin QuotedToks
            THEN NoPrompt
            ELSE
            LET r5 == TrimLeftSpace(Tail(r4))
                nOpt == IF HasPrefix(r5, "[") THEN PrefixLenNotIn(Tail(r5), {"]"}) ELSE 0
                group == HasPrefix(r5, "[") /\ nOpt + 2 <= Len(r5)
                inner == IF group THEN SubSeq(r5, 2, nOpt + 1) ELSE <<>>
                withGroup == IF group THEN PromptTail(TrimLeftSpace(Drop(r5, nOpt + 2)))
                             ELSE [ok |-> FALSE, default |-> <<>>]
                noGroup == PromptTail(r5)
                base == [err |-> FALSE, VarName |-> SubSeq(r2, 1, nName),
                         Text |-> <<Head(r4)>>, Options |-> <<>>, Default |-> <<>>]
            IN  IF withGroup.ok
                THEN [base EXCEPT
                        !.Options = Fields(Drop(inner, PrefixLenIn(inner, {"["}))),
                        !.Default = withGroup.default]
                ELSE IF noGroup.ok
                THEN [base EXCEPT !.Default = noGroup.default]
                ELSE NoPrompt

processPrompt_DefaultUnchecked(response, prompt) ==
    LET pd == parsePrompt(TrimSpace(prompt[1]))
    IN  IF pd.err
        THEN [err |-> TRUE, asked |-> FALSE, set |-> FALSE, k |-> <<>>, v |-> <<>>]
        ELSE IF response = <<>> /\ pd.Default # <<>>
        THEN [err |-> FALSE, asked |-> TRUE, set |-> TRUE, k |-> pd.VarName, v |-> pd.Default]
        ELSE IF Len(pd.Options) > 0 /\ ~\E k \in 1..Len(pd.Options) : response = <<pd.Options[k]>>
        THEN [err |-> TRUE, asked |-> TRUE, set |-> FALSE, k |-> <<>>, v |-> <<>>]
        ELSE [err |-> FALSE, asked |-> TRUE, set |-> TRUE, k |-> pd.VarName, v |-> response]

\* processPrompt on the one line of a Prompt section; response is what
\* promptFunc returns when it is called.
processPrompt(response, prompt) ==
    LET line == TrimSpace(prompt[1])
        pd == parsePrompt(line)
        resolved == IF response = <<>> /\ pd.Default # <<>> THEN pd.Default ELSE response
        valid == \E k \in 1..Len(pd.Options) : resolved = <<pd.Options[k]>>
    IN  IF ~HasPrefix(line, "[prompt]:#")
        THEN [err |-> FALSE, asked |-> FALSE, set |-> FALSE, k |-> <<>>, v |-> <<>>]
        ELSE IF pd.err
        THEN [err |-> TRUE, asked |-> FALSE, set |-> FALSE, k |-> <<>>, v |-> <<>>]
        ELSE IF Len(pd.Options) > 0 /\ ~valid
        THEN [err |-> TRUE, asked |-> TRUE, set |-> FALSE, k |-> <<>>, v |-> <<>>]
        ELSE [err |-> FALSE, asked |-> TRUE, set |-> TRUE, k |-> pd.VarName, v |-> resolved]

(***************************************************************************)
(* runner.go: the persistent shells.  A shell is a process with a table of *)
(* variables that starts as a copy of the parent's environment.            *)
(***************************************************************************)
Lookup(m, k) == IF k \in DOMAIN m THEN m[k] ELSE <<>>

Put(m, k, v) == [x \in DOMAIN m \cup {k} |-> IF x = k THEN v ELSE m[x]]

NoEnv == [x \in {} |-> <<>>]

marker == "__END_OF_SNIPPET__"

exitMarker == "__EXIT_CODE__"

\* A runner: the shell process (spawned, alive, its variables), the text it
\* has written without a newline yet, and the complete lines in its stdout
\* pipe that the scanner has not read.
NoRunner ==
    [spawned |-> FALSE, alive |-> FALSE, vars |-> NoEnv,
     partial |-> <<>>, pending |-> <<>>]

\* exec.Command(command) with cmd.Env unset; cmd.Start()
newRunnerIO(env) ==
    [spawned |-> TRUE, alive |-> TRUE, vars |-> env,
     partial |-> <<>>, pending |-> <<>>]

\* What one command line of a snippet is.
Command(line) ==
    LET t == TrimSpace(line)
    IN  IF t = <<>> THEN [op |-> "empty"]
        ELSE CASE t[1] = "foo=bar"    -> [op |-> "assign", var |-> <<"foo">>, val |-> <<"bar">>]
               [] t[1] = "foo=baz"    -> [op |-> "assign", var |-> <<"foo">>, val |-> <<"baz">>]
               [] t[1] = "echo $foo"  -> [op |-> "echo", var |-> <<"foo">>]
               [] t[1] = "echo $NAME" -> [op |-> "echo", var |-> <<"NAME">>]
               [] t[1] = "echo hello" -> [op |-> "print", text |-> <<"hello">>]
               [] t[1] = "echo __END_OF_SNIPPET__" -> [op |-> "print", text |-> <<marker>>]
               [] t[1] = "echo __EXIT_CODE__ 0" ->
                        [op |-> "print", text |-> <<exitMarker, " ", "0">>]
               [] t[1] = "echo __EXIT_CODE__ x" ->
                        [op |-> "print", text |-> <<exitMarker, " ", "x">>]
               [] t[1] = "echo __OTHER__ 0" ->
                        [op |-> "print", text |-> <<"__OTHER__", " ", "0">>]
               [] t[1] = "printf part" -> [op |-> "printf", text |-> <<"part">>]
               [] t[1] = "exit 1"     -> [op |-> "exit", status |-> 1]
               [] t[1] = "exit 0"     -> [op |-> "exit", status |-> 0]
               [] t[1] = "return 1"   -> [op |-> "return", status |-> 1]
               [] t[1] = "kill -9 $$" -> [op |-> "kill"]
               [] OTHER               -> [op |-> "unknown"]

\* The shell writes text and a newline: a complete line is in the pipe.
EmitLine(st, text) ==
    [st EXCEPT !.out = Append(@, st.sh.partial \o text),
               !.sh.partial = <<>>,
               !.status = 0]

ExecCommand_ExitEndsShell(st, c, verify) ==
    IF ~st.sh.alive \/ st.returned THEN st
    ELSE IF c.op = "exit" THEN [st EXCEPT !.sh.alive = FALSE, !.status = c.status]
    ELSE IF c.op = "print" THEN EmitLine(st, c.text)
    ELSE IF c.op = "unknown"
    THEN [EmitLine(st, <<"command not found">>) EXCEPT !.status = 127]
    ELSE IF c.op = "return" THEN [st EXCEPT !.returned = TRUE, !.status = c.status]
    ELSE IF c.op = "kill" THEN [st EXCEPT !.sh.alive = FALSE]
    ELSE st

\* The shell executes one command.  st: sh (the shell), out (the complete
\* lines written to stdout so far), status ($?), returned (verify:
\* __run_snippet has returned).  In verify mode exit is the function
\* exit() { return "$@"; }: calling it returns from that function with the
\* status, and the body of __run_snippet goes on.
ExecCommand(st, c, verify) ==
    IF ~st.sh.alive \/ st.returned THEN st
    ELSE CASE c.op = "assign" ->
                [st EXCEPT !.sh.vars = Put(@, c.var, c.val), !.status = 0]
           [] c.op = "echo" -> EmitLine(st, Lookup(st.sh.vars, c.var))
           [] c.op = "print" -> EmitLine(st, c.text)
           [] c.op = "printf" ->
                [st EXCEPT !.sh.partial = @ \o c.text, !.status = 0]
           [] c.op = "exit" ->
                IF verify THEN [st EXCEPT !.status = c.status]
                ELSE [st EXCEPT !.sh.alive = FALSE, !.status = c.status]
           [] c.op = "return" ->
                IF verify THEN [st EXCEPT !.returned = TRUE, !.status = c.status]
                ELSE [EmitLine(st, <<"return: can only return from a function">>)
                         EXCEPT !.status = 2]
           [] c.op = "kill" -> [st EXCEPT !.sh.alive = FALSE]
           [] c.op = "unknown" ->
                [EmitLine(st, <<"command not found">>) EXCEPT !.status = 127]
           [] OTHER -> st

ExecLine(st, line, verify) == ExecCommand(st, Command(line), verify)

RECURSIVE ExecLines(_, _, _)
ExecLines(st, lines, verify) ==
    IF lines = <<>> THEN st
    ELSE ExecLines(ExecLine(st, Head(lines), verify), Tail(lines), verify)

ExecStart(sh) == [sh |-> sh, out |-> <<>>, status |-> 0, returned |-> FALSE]

\* What the scanner can read once the shell has worked through what was
\* written: the unread lines, the new lines and, when the shell is gone, the
\* unterminated text as a last line before the end of the stream.
Stream(sh, st) ==
    sh.pending \o st.out \o
    (IF ~st.sh.alive /\ st.sh.partial # <<>> THEN <<st.sh.partial>> ELSE <<>>)

ReadToMarker_KeepMarker(stream) ==
    LET n == PrefixLenNotIn(stream, {<<marker>>})
    IN  [lines |-> SubSeq(stream, 1, IF n < Len(stream) THEN n + 1 ELSE n),
         found |-> n < Len(stream),
         rest  |-> Drop(stream, n + 1)]

\* for r.scanner.Scan() { if line == marker { break }; output.WriteString(line + "\n") }
ReadToMarker(stream) ==
    LET n == PrefixLenNotIn(stream, {<<marker>>})
    IN  [lines |-> SubSeq(stream, 1, n),
         found |-> n < Len(stream),
         rest  |-> Drop(stream, n + 1)]

RECURSIVE JoinLines(_)
JoinLines(lines) ==
    IF lines = <<>> THEN <<>>
    ELSE Head(lines) \o <<"\n">> \o JoinLines(Tail(lines))

\* What a Run went through, kept for the history: whether the snippet was
\* executed, the complete lines its body wrote (printed), the unterminated
\* text the body left (tail), the body's status, whether the marker line was
\* read (found), and the line read after it (present, xline).
NotRun ==
    [ran |-> FALSE, printed |-> <<>>, tail |-> <<>>, status |-> 0,
     found |-> FALSE, present |-> FALSE, xline |-> <<>>]

Observe(body, rd) ==
    [ran |-> TRUE, printed |-> body.out, tail |-> body.sh.partial,
     status |-> body.status, found |-> rd.found,
     present |-> rd.rest # <<>>,
     xline |-> IF rd.rest = <<>> THEN <<>> ELSE rd.rest[1]]

\* The result of a Run: the runner afterwards, the returned string (text)
\* and its lines (out), the error, and whether the call never returns
\* (hang: Scan blocks on a live shell that writes nothing more).
RunResult(sh, lines, why, hang, obs) ==
    [sh |-> sh, out |-> lines, text |-> JoinLines(lines), err |-> why # "none",
     why |-> why, hang |-> hang,
     ran |-> obs.ran, printed |-> obs.printed, tail |-> obs.tail,
     status |-> obs.status, found |-> obs.found, present |-> obs.present,
     xline |-> obs.xline]

\* What Run returns once the scanner has read up to the marker line or to
\* the end of the stream.
StreamReturn(body, done, rd) ==
    RunResult([done.sh EXCEPT !.pending = rd.rest],
              IF ~rd.found /\ done.sh.alive THEN <<>> ELSE rd.lines,
              "none", ~rd.found /\ done.sh.alive, Observe(body, rd))

StreamRead(sh, body, done) == StreamReturn(body, done, ReadToMarker(Stream(sh, done)))

StreamExec(sh, body) ==
    StreamRead(sh, body, ExecLine(body, <<"echo __END_OF_SNIPPET__">>, FALSE))

\* runnerIO.Run: write the snippet and the marker command, read lines up to
\* the marker line or to the end of the stream.
StreamRun(sh, code) ==
    IF ~sh.alive
    THEN RunResult(sh, <<>>, "write", FALSE, NotRun)
    ELSE StreamExec(sh, ExecLines(ExecStart(sh), code, FALSE))

StatusTok(n) ==
    CASE n = 0 -> "0" [] n = 1 -> "1" [] n = 2 -> "2" [] n = 127 -> "127" [] OTHER -> "?"

Atoi_AnyToken(tok) == [ok |-> TRUE, n |-> 0]

\* strconv.Atoi(parts[1])
Atoi(tok) ==
    CASE tok = "0" -> [ok |-> TRUE, n |-> 0]
      [] tok = "1" -> [ok |-> TRUE, n |-> 1]
      [] tok = "2" -> [ok |-> TRUE, n |-> 2]
      [] tok = "127" -> [ok |-> TRUE, n |-> 127]
      [] OTHER -> [ok |-> FALSE, n |-> 0]

Success == <<"Success">>

Failure(n) == <<"Failure", StatusTok(n)>>

\* The verdict for the status read from the line after the marker.
VerifyVerdict(after, parsed, obs) ==
    IF ~parsed.ok THEN RunResult(after, <<>>, "parse", FALSE, obs)
    ELSE IF parsed.n # 0 THEN RunResult(after, <<Failure(parsed.n)>>, "none", FALSE, obs)
    ELSE RunResult(after, <<Success>>, "none", FALSE, obs)

\* parts := strings.Fields(exitLine) and the checks on it
VerifyParse(after, blocked, parts, obs) ==
    IF blocked THEN RunResult(after, <<>>, "none", TRUE, obs)
    ELSE IF Len(parts) # 2 THEN RunResult(after, <<>>, "parse", FALSE, obs)
    ELSE IF parts[1] # exitMarker THEN RunResult(after, <<>>, "parse", FALSE, obs)
    ELSE VerifyVerdict(after, Atoi(parts[2]), obs)

\* The line after the marker line, "" when the stream has none.
ExitLineOf(rd) == IF rd.rest = <<>> THEN <<>> ELSE rd.rest[1]

VerifyReturn(body, done, rd) ==
    VerifyParse([done.sh EXCEPT !.pending = IF rd.rest = <<>> THEN <<>> ELSE Tail(rd.rest)],
                done.sh.alive /\ rd.rest = <<>>,
                Fields(ExitLineOf(rd)),
                Observe(body, rd))

VerifyRead(sh, body, done) == VerifyReturn(body, done, ReadToMarker(Stream(sh, done)))

\* echo __EXIT_CODE__ $exitCode
EchoExitCode(mark, status) ==
    IF mark.sh.alive THEN EmitLine(mark, <<exitMarker, " ", StatusTok(status)>>) ELSE mark

VerifyExec(sh, body) ==
    VerifyRead(sh, body,
               EchoExitCode(ExecLine([body EXCEPT !.returned = FALSE],
                                     <<"echo __END_OF_SNIPPET__">>, FALSE),
                            body.status))

\* VerifyRunner.Run: the snippet wrapped in __run_snippet, then the two
\* marker commands; read up to the marker line, then parse the next line.
VerifyRun(sh, code) ==
    IF ~sh.alive
    THEN RunResult(sh, <<>>, "write", FALSE, NotRun)
    ELSE VerifyExec(sh, ExecLines(ExecStart(sh), code, TRUE))

Families == {"bash", "shell", "verify"}

\* GetRunner's switch: the singleton a language names, "none" for nil.
Family_ShIsBash(lang) ==
    CASE lang = <<"bash">> \/ lang = <<"sh">> -> "bash"
      [] lang = <<"shell">> -> "shell"
      [] lang = <<"verify">> -> "verify"
      [] OTHER -> "none"

Family_EmptyIsBash(lang) ==
    CASE lang = <<"bash">> \/ lang = <<>> -> "bash"
      [] lang = <<"sh">> \/ lang = <<"shell">> -> "shell"
      [] lang = <<"verify">> -> "verify"
      [] OTHER -> "none"

Family(lang) ==
    CASE lang = <<"bash">> -> "bash"
      [] lang = <<"sh">> \/ lang = <<"shell">> -> "shell"
      [] lang = <<"verify">> -> "verify"
      [] OTHER -> "none"

\* GetRunner: the registry after the call (the singleton is spawned on first use).
GetRunner_AlwaysSpawn(rs, lang, env) ==
    IF Family(lang) = "none" THEN rs
    ELSE [rs EXCEPT ![Family(lang)] = newRunnerIO(env)]

GetRunner(rs, lang, env) ==
    IF Family(lang) = "none" THEN rs
    ELSE [rs EXCEPT ![Family(lang)] = IF @.spawned THEN @ ELSE newRunnerIO(env)]

Run(fam, sh, code) == IF fam = "verify" THEN VerifyRun(sh, code) ELSE StreamRun(sh, code)

(***************************************************************************)
(* processCodeBlock and RunMarkdown.                                       *)
(***************************************************************************)
\* parts := strings.Split(code[0], fence); language = parts[1] when there is one
Language(first) ==
    LET n == PrefixLenNotIn(first, {codeFence})
        rest == Drop(first, n + 1)
    IN  IF n = Len(first) THEN <<>>
        ELSE SubSeq(rest, 1, PrefixLenNotIn(rest, {codeFence}))

\* codeText := strings.Join(code[1:len(code)-1], "\n")
CodeText(code) == SubSeq(code, 2, Len(code) - 1)

Item(kind, val) == [k |-> kind, v |-> val]

Banner == Item("banner", <<>>)

Newline == Item("newline", <<>>)

\* strings.ToLower(strings.TrimSpace(promptFunc(...)))
CodeAnswer_EmptyIsRun(ans) ==
    IF TrimSpace(ans) = <<>> THEN <<"r">> ELSE ToLower(TrimSpace(ans))

CodeAnswer(ans) == ToLower(TrimSpace(ans))

\* strings.ToLower(promptFunc(promptMsg)) == "exit"
HeaderExit_CaseSensitive(ans) == ans = <<"e", "x", "i", "t">>

HeaderExit(ans) == ToLower(ans) = <<"e", "x", "i", "t">>

NoExit == [chosen |-> FALSE, at |-> "none", w |-> 0, asked |-> 0, depth |-> 0]

\* No caller of GetRunner has started: the package variables are nil
\* (0), no process has been started.
RaceIdle ==
    [reg |-> [f \in Families |-> 0],
     procs |-> <<>>,
     th |-> [t \in 1..MaxThreads |-> [at |-> "idle", lang |-> <<>>, local |-> 0, result |-> 0]]]

RunIdle ==
    /\ race = RaceIdle
    /\ i = 0
    /\ w = <<>>
    /\ asked = <<>>
    /\ lastAns = <<>>
    /\ ret = "none"
    /\ environ = NoEnv
    /\ runners = [f \in Families |-> NoRunner]
    /\ depth = 0
    /\ hist = <<>>
    /\ exited = NoExit

(***************************************************************************)
(* Inputs of the parser specification.                                     *)
(***************************************************************************)
LHeaderA    == <<"#", " ", "A">>
LHeaderB    == <<"#", "#", " ", "B", "!">>
LTagsAlways == <<"[tags]:#", " ", "(", "always", ")">>
LTagsFoo    == <<"[tags]:#", " ", "(", "foo", ")">>
LFenceBash  == <<codeFence, "bash">>
LFence      == <<codeFence>>
LPrompt     == <<"[prompt]:#", " ", "(", "NAME", " ", "\"q\"", ")">>
LText       == <<"t">>

ParseLines ==
    {LHeaderA, LHeaderB, LTagsAlways, LTagsFoo, LFenceBash, LFence, LPrompt, LText}

Anchors == {<<>>, <<"a">>, <<"b">>, <<"z">>}

TagLists == {<<>>, <<"foo">>, <<"always">>, <<"baz">>}

(***************************************************************************)
(* SpecParse: parseSections as a state machine.  The scanner hands over    *)
(* one line at a time; at end of input the last section is flushed and the *)
(* filter loop runs.                                                       *)
(***************************************************************************)
InitParse ==
    /\ doc = <<>>
    /\ kinds = <<>>
    /\ scan = ScanInit
    /\ pc = "scan"
    /\ start = <<>>
    /\ userTags = <<>>
    /\ filtered = <<>>
    /\ picked = <<>>
    /\ RunIdle

ScanLine ==
    /\ pc = "scan"
    /\ Len(doc) < MaxLines
    /\ \E line \in ParseLines :
          /\ doc' = Append(doc, line)
          /\ kinds' = Append(kinds, LineKind(scan, line))
          /\ scan' = ScanStep(scan, line)
    /\ UNCHANGED <<pc, start, userTags, filtered, picked>>
    /\ UNCHANGED runVars

ScanEnd ==
    /\ pc = "scan"
    /\ \E anchor \in Anchors, tags \in TagLists :
          LET r == FilterSections(Flush(scan), anchor, tags)
          IN  /\ start' = anchor
              /\ userTags' = tags
              /\ filtered' = r.filtered
              /\ picked' = r.picked
    /\ scan' = [scan EXCEPT !.sections = Flush(scan)]
    /\ pc' = "done"
    /\ UNCHANGED <<doc, kinds>>
    /\ UNCHANGED runVars

NextParse == ScanLine \/ ScanEnd

SpecParse == InitParse /\ [][NextParse]_vars

(***************************************************************************)
(* The scanner over tags directives in every shape: one and two tokens,    *)
(* with and without blanks around them, no token, blanks only, no closing  *)
(* parenthesis, text after the closing parenthesis.                        *)
(***************************************************************************)
LTagsTwo   == <<"[tags]:#", " ", "(", " ", "foo", " ", " ", "bar", " ", ")">>
LTagsTight == <<"[tags]:#", "(", "bar", ")">>
LTagsNone  == <<"[tags]:#", " ", "(", ")">>
LTagsBlank == <<"[tags]:#", " ", "(", " ", ")">>
LTagsOpen  == <<"[tags]:#", " ", "(", "foo">>
LTagsTrail == <<"[tags]:#", " ", "(", "foo", ")", " ", "t">>

TagLines ==
    {LTagsAlways, LTagsTwo, LTagsTight, LTagsNone, LTagsBlank, LTagsOpen, LTagsTrail,
     LHeaderA, LFence}

ScanTagLine ==
    /\ pc = "scan"
    /\ Len(doc) < MaxTagLines
    /\ \E line \in TagLines :
          /\ doc' = Append(doc, line)
          /\ kinds' = Append(kinds, LineKind(scan, line))
          /\ scan' = ScanStep(scan, line)
    /\ UNCHANGED <<pc, start, userTags, filtered, picked>>
    /\ UNCHANGED runVars

NextTags == ScanTagLine \/ ScanEnd

SpecTags == InitParse /\ [][NextTags]_vars

(***************************************************************************)
(* The scanner on documents with indented lines: the loop tests the        *)
(* trimmed line and stores the line as it is.                              *)
(***************************************************************************)
LTagsIndented == <<" ", "[tags]:#", " ", "(", "always", ")">>
LTextIndented == <<" ", "t">>

SegmentLines == ParseLines \cup {LTagsIndented, LTextIndented}

ScanAnyLine ==
    /\ pc = "scan"
    /\ Len(doc) < MaxSegLines
    /\ \E line \in SegmentLines :
          /\ doc' = Append(doc, line)
          /\ kinds' = Append(kinds, LineKind(scan, line))
          /\ scan' = ScanStep(scan, line)
    /\ UNCHANGED <<pc, start, userTags, filtered, picked>>
    /\ UNCHANGED runVars

NextSegment == ScanAnyLine \/ ScanEnd

SpecSegment == InitParse /\ [][NextSegment]_vars

(***************************************************************************)
(* Inputs of the orchestrator specifications: documents made of whole      *)
(* blocks, and what the operator may type.                                 *)
(***************************************************************************)
LSetBar   == <<"foo=bar">>
LSetBaz   == <<"foo=baz">>
LEchoFoo  == <<"echo $foo">>
LEchoName == <<"echo $NAME">>
LFenceSh  == <<codeFence, "sh">>
LPromptDefault == <<"[prompt]:#", " ", "(", "NAME", " ", "\"q\"", " ", "n", ")">>

BHeaderA    == <<LHeaderA>>
BHeaderB    == <<LHeaderB>>
BText       == <<LText>>
BTagsAlways == <<LTagsAlways>>
BCodeBash   == <<LFenceBash, LEchoFoo, LFence>>
BPrompt     == <<LPromptDefault>>
BAskName    == <<LText, LHeaderA, LPromptDefault>>
BSetBar     == <<LFenceBash, LSetBar, LFence>>
BSetBaz     == <<LFenceBash, LSetBaz, LFence>>
BEchoBash   == <<LFenceBash, LEchoFoo, LEchoName, LFence>>
BEchoSh     == <<LFenceSh, LEchoFoo, LEchoName, LFence>>

RECURSIVE Flatten(_)
Flatten(bs) == IF bs = <<>> THEN <<>> ELSE Head(bs) \o Flatten(Tail(bs))

DocsOf(blocks, n) ==
    {Flatten(bs) : bs \in UNION {[1..m -> blocks] : m \in 0..n}}

RunBlocks == {BHeaderA, BHeaderB, BText, BTagsAlways, BCodeBash, BPrompt}

RunDocs == DocsOf(RunBlocks, MaxBlocks)

RunAnchors == {<<>>, <<"b">>, <<"z">>}

RunTagLists == {<<>>, <<"foo">>}

Answers ==
    {<<>>, <<"r">>, <<"s">>, <<"x">>, <<"X">>, <<"q">>,
     <<"e", "x", "i", "t">>, <<"E", "x", "i", "t">>}

PromptAnswers == {<<>>, <<"y">>, <<"z">>}

\* What the operator typed, read without the code's help: exit at a header
\* question, x at a code question.
IsExitWord(ans) ==
    /\ Len(ans) = 4
    /\ ans[1] \in {"e", "E"} /\ ans[2] \in {"x", "X"}
    /\ ans[3] \in {"i", "I"} /\ ans[4] \in {"t", "T"}

IsX(ans) == TrimSpace(ans) \in {<<"x">>, <<"X">>}

(***************************************************************************)
(* RunMarkdown as a state machine.  An action runs the code from one call  *)
(* of promptFunc to the next.                                              *)
(***************************************************************************)
InitRunWith(docs, anchors, tagLists) ==
    /\ doc \in docs
    /\ start \in anchors
    /\ userTags \in tagLists
    /\ kinds = <<>>
    /\ scan = ScanInit
    /\ picked = <<>>
    /\ filtered = <<>>
    /\ pc = "call"
    /\ RunIdle

InitRun == InitRunWith(RunDocs, RunAnchors, RunTagLists)

inputVars == <<doc, start, userTags, kinds, scan, picked>>

Sec == filtered[i]

InLoop == pc = "loop" /\ i <= Len(filtered)

CanAsk == Len(asked) < MaxAsk

Ask(q, ans) ==
    /\ asked' = Append(asked, [q |-> q, at |-> i])
    /\ lastAns' = ans

NoteExit(ans, place, isExit) ==
    exited' = IF isExit /\ ~exited.chosen
              THEN [chosen |-> TRUE, at |-> place, w |-> Len(w'), asked |-> Len(asked'),
                    depth |-> depth]
              ELSE exited

\* sections := parseSections(mdContent, startAnchor, tags)
RunParse ==
    /\ pc = "call"
    /\ filtered' = parseSections(doc, start, userTags)
    /\ i' = 1
    /\ pc' = "loop"
    /\ UNCHANGED <<inputVars, race, w, asked, lastAns, ret, environ, runners, depth, hist, exited>>

\* case SectionText
RunText ==
    /\ InLoop
    /\ Sec.Type = "Text"
    /\ w' = Append(w, Item("section", Sec.Lines))
    /\ i' = i + 1
    /\ UNCHANGED <<inputVars, race, filtered, pc, asked, lastAns, ret, environ, runners, depth, hist, exited>>

\* case SectionHeader
RunHeader ==
    /\ InLoop
    /\ Sec.Type = "Header"
    /\ IF i < Len(filtered) /\ filtered[i + 1].Type = "Header"
       THEN /\ CanAsk
            /\ \E ans \in Answers :
                  /\ Ask("continue", ans)
                  /\ IF HeaderExit(ans)
                     THEN /\ w' = Append(w, Item("section", Sec.Lines))
                          /\ pc' = "done"
                          /\ ret' = "nil"
                          /\ i' = i
                     ELSE /\ w' = w \o <<Item("section", Sec.Lines), Newline>>
                          /\ i' = i + 1
                          /\ UNCHANGED <<pc, ret>>
                  /\ NoteExit(ans, "header", IsExitWord(ans))
       ELSE /\ w' = Append(w, Item("section", Sec.Lines))
            /\ i' = i + 1
            /\ UNCHANGED <<pc, ret, asked, lastAns, exited>>
    /\ UNCHANGED <<inputVars, race, filtered, environ, runners, depth, hist>>

NoEvent ==
    [ev |-> "none", fam |-> "none", code |-> <<>>, before |-> NoRunner, res |-> <<>>,
     out |-> <<>>, ran |-> FALSE, k |-> <<>>, v |-> <<>>, spawn |-> FALSE]

\* The history's record of one call of Run: r is its result on the runner sh.
RunEvent(fam, code, sh, r) ==
    [NoEvent EXCEPT !.ev = "run", !.fam = fam, !.code = code, !.before = sh, !.res = r,
                    !.out = r.printed, !.ran = r.ran]
\* RunMarkdown's prompt branch with the Setenv loop moved before the error test.
RunPrompt_SetenvOnError ==
    /\ InLoop
    /\ Sec.Type = "Prompt"
    /\ \E ans \in PromptAnswers :
          LET r == processPrompt(ans, Sec.Lines)
          IN  /\ r.asked => CanAsk
              /\ (r.err /\ ~r.asked) => Len(w) < MaxWrites
              /\ IF r.asked THEN Ask("prompt", ans) ELSE UNCHANGED <<asked, lastAns>>
              /\ IF r.err
                 THEN /\ w' = Append(w, Item("prompterr", <<>>))
                      /\ environ' = IF r.asked
                                    THEN Put(environ, parsePrompt(TrimSpace(Sec.Lines[1])).VarName, ans)
                                    ELSE environ
                      /\ UNCHANGED <<i, hist>>
                 ELSE /\ w' = Append(w, Newline)
                      /\ i' = i + 1
                      /\ environ' = IF r.set THEN Put(environ, r.k, r.v) ELSE environ
                      /\ hist' = IF r.set
                                 THEN Append(hist, [NoEvent EXCEPT !.ev = "setenv",
                                                                   !.k = r.k, !.v = r.v])
                                 ELSE hist
    /\ UNCHANGED <<inputVars, race, filtered, pc, ret, runners, depth, exited>>

\* case SectionPrompt: one turn of the loop around processPrompt
RunPrompt ==
    /\ InLoop
    /\ Sec.Type = "Prompt"
    /\ \E ans \in PromptAnswers :
          LET r == processPrompt(ans, Sec.Lines)
          IN  /\ r.asked => CanAsk
              /\ (r.err /\ ~r.asked) => Len(w) < MaxWrites
              /\ IF r.asked THEN Ask("prompt", ans) ELSE UNCHANGED <<asked, lastAns>>
              /\ IF r.err
                 THEN /\ w' = Append(w, Item("prompterr", <<>>))
                      /\ UNCHANGED <<i, environ, hist>>
                 ELSE /\ w' = Append(w, Newline)
                      /\ i' = i + 1
                      /\ environ' = IF r.set THEN Put(environ, r.k, r.v) ELSE environ
                      /\ hist' = IF r.set
                                 THEN Append(hist, [NoEvent EXCEPT !.ev = "setenv",
                                                                   !.k = r.k, !.v = r.v])
                                 ELSE hist
    /\ UNCHANGED <<inputVars, race, filtered, pc, ret, runners, depth, exited>>

\* case SectionCode, and processCodeBlock down to its first call of promptFunc
RunCode ==
    /\ InLoop
    /\ Sec.Type = "Code"
    /\ LET code == Sec.Lines
           lang == Language(code[1])
       IN  IF Len(code) <= 2
           THEN /\ w' = w \o <<Item("section", code), Item("lines", code)>>
                /\ i' = i + 1
                /\ UNCHANGED <<pc, asked, lastAns, runners, depth>>
           ELSE /\ w' = Append(w, Item("section", code))
                /\ runners' = GetRunner(runners, lang, environ)
                /\ IF Family(lang) = "none"
                   THEN /\ CanAsk
                        /\ \E ans \in Answers : Ask("enter", ans)
                        /\ i' = i + 1
                        /\ UNCHANGED <<pc, depth>>
                   ELSE /\ pc' = "code_ask"
                        /\ depth' = 0
                        /\ UNCHANGED <<i, asked, lastAns>>
    /\ UNCHANGED <<inputVars, race, filtered, ret, environ, hist, exited>>

\* What processCodeBlock's outermost call returns to RunMarkdown when the
\* call at the current depth returns (nil, exit): a caller that gets a nil
\* error back from its recursive call falls through to return nil, false.
ReturnedExit(d, exit) == exit /\ d = 0

\* RunMarkdown after processCodeBlock returned (nil, exit)
AfterCodeBlock(exit) ==
    IF exit
    THEN /\ pc' = "done"
         /\ ret' = "nil"
         /\ i' = i
    ELSE /\ pc' = "loop"
         /\ i' = i + 1
         /\ UNCHANGED ret

\* What is written after runner.Run(codeText) returned r
RunSnippetDone(fam, code, r) ==
    /\ runners' = [runners EXCEPT ![fam] = r.sh]
    /\ w' = w \o (IF r.err THEN <<Item("error", <<>>)>> ELSE <<>>)
              \o <<Item("output", IF r.out = <<>> THEN <<<<"(no output)">>>> ELSE r.out)>>
    /\ hist' = Append(hist, RunEvent(fam, code, runners[fam], r))

RunSnippetOn(fam, code) == RunSnippetDone(fam, code, Run(fam, runners[fam], code))

\* case "r": runner.Run(codeText) and what is written after it
RunSnippet == RunSnippetOn(Family(Language(Sec.Lines[1])), CodeText(Sec.Lines))

\* The answer to "Run code? (r=run, s=skip, x=exit)" and the switch on it
AnswerRun ==
    /\ pc = "code_ask"
    /\ CanAsk
    /\ \E ans \in Answers :
          LET c == CodeAnswer(ans)
          IN  /\ Ask("run", ans)
              /\ CASE c = <<"r">> ->
                        /\ RunSnippet
                        /\ pc' = "code_ran"
                        /\ UNCHANGED <<i, ret, depth>>
                   [] c = <<"x">> ->
                        /\ AfterCodeBlock(ReturnedExit(depth, TRUE))
                        /\ UNCHANGED <<w, runners, hist, depth>>
                   [] c = <<"s">> \/ c = <<>> ->
                        /\ AfterCodeBlock(ReturnedExit(depth, FALSE))
                        /\ UNCHANGED <<w, runners, hist, depth>>
                   [] OTHER ->
                        /\ depth' = depth + 1
                        /\ UNCHANGED <<pc, i, ret, w, runners, hist>>
              /\ NoteExit(ans, "code", IsX(ans))
    /\ UNCHANGED <<inputVars, race, filtered, environ>>

\* The answer to "Continue? (r=rerun, s=continue, x=exit)" and the switch on it
AnswerContinue_UnknownContinues ==
    /\ pc = "code_ran"
    /\ CanAsk
    /\ \E ans \in Answers :
          LET c == CodeAnswer(ans)
          IN  /\ Ask("rerun", ans)
              /\ CASE c = <<"x">> ->
                        /\ AfterCodeBlock(ReturnedExit(depth, TRUE))
                        /\ UNCHANGED <<w, runners, hist, depth>>
                   [] c # <<"r">> ->
                        /\ AfterCodeBlock(ReturnedExit(depth, FALSE))
                        /\ UNCHANGED <<w, runners, hist, depth>>
                   [] OTHER ->
                        /\ RunSnippet
                        /\ depth' = depth + 1
                        /\ UNCHANGED <<pc, i, ret>>
              /\ NoteExit(ans, "code", IsX(ans))
    /\ UNCHANGED <<inputVars, race, filtered, environ>>

AnswerContinue ==
    /\ pc = "code_ran"
    /\ CanAsk
    /\ \E ans \in Answers :
          LET c == CodeAnswer(ans)
          IN  /\ Ask("rerun", ans)
              /\ CASE c = <<"x">> ->
                        /\ AfterCodeBlock(ReturnedExit(depth, TRUE))
                        /\ UNCHANGED <<w, runners, hist, depth>>
                   [] c = <<"s">> \/ c = <<>> ->
                        /\ AfterCodeBlock(ReturnedExit(depth, FALSE))
                        /\ UNCHANGED <<w, runners, hist, depth>>
                   [] OTHER ->
                        /\ RunSnippet
                        /\ depth' = depth + 1
                        /\ UNCHANGED <<pc, i, ret>>
              /\ NoteExit(ans, "code", IsX(ans))
    /\ UNCHANGED <<inputVars, race, filtered, environ>>

\* fmt.Fprintln(w, "\n> README complete!"); return nil
RunComplete ==
    /\ pc = "loop"
    /\ i > Len(filtered)
    /\ w' = Append(w, Banner)
    /\ ret' = "nil"
    /\ pc' = "done"
    /\ UNCHANGED <<inputVars, race, filtered, i, asked, lastAns, environ, runners, depth, hist, exited>>

NextRun ==
    \/ RunParse
    \/ RunText
    \/ RunHeader
    \/ RunPrompt
    \/ RunCode
    \/ AnswerRun
    \/ AnswerContinue
    \/ RunComplete

SpecRun == InitRun /\ [][NextRun]_vars

(***************************************************************************)
(* The same machine over documents of shell snippets and prompts, run from *)
(* the top with no tags.                                                   *)
(***************************************************************************)
ShellBlocks == {BSetBar, BSetBaz, BEchoBash, BEchoSh, BAskName}

ShellDocs == DocsOf(ShellBlocks, MaxBlocks)

InitShell == InitRunWith(ShellDocs, {<<>>}, {<<>>})

SpecShell == InitShell /\ [][NextRun]_vars

(***************************************************************************)
(* The same machine over documents with a snippet that ends its shell.     *)
(***************************************************************************)
BExit == <<LFenceBash, <<"exit 1">>, LFence>>

FailBlocks == {BExit, BAskName}

FailDocs == DocsOf(FailBlocks, MaxBlocks)

InitFail == InitRunWith(FailDocs, {<<>>}, {<<>>})

SpecFail == InitFail /\ [][NextRun]_vars

(***************************************************************************)
(* The same machine over documents of prompt directives: with and without  *)
(* options and default, and one that is not in the directive's format.     *)
(***************************************************************************)
LPromptOpt ==
    <<"[prompt]:#", " ", "(", "NAME", " ", "\"q\"", " ", "[", "y", " ", "n", "]", " ", "n", ")">>
LPromptOptOnly ==
    <<"[prompt]:#", " ", "(", "NAME", " ", "\"q\"", " ", "[", "y", " ", "n", "]", ")">>
LPromptOptZ ==
    <<"[prompt]:#", " ", "(", "NAME", " ", "\"q\"", " ", "[", "y", "]", " ", "z", ")">>
LPromptBad == <<"[prompt]:#", " ", "(", "NAME", ")">>

PromptBlocks ==
    {BAskName, BPrompt, <<LPrompt>>, <<LPromptOpt>>, <<LPromptOptOnly>>, <<LPromptOptZ>>,
     <<LPromptBad>>, BEchoBash}

PromptDocs == DocsOf(PromptBlocks, MaxPrompts)

InitPrompt == InitRunWith(PromptDocs, {<<>>}, {<<>>})

SpecPrompt == InitPrompt /\ [][NextRun]_vars

(***************************************************************************)
(* The same machine over documents of code sections: fences without a      *)
(* language and with a language no runner exists for, and bash snippets.   *)
(***************************************************************************)
LFencePy == <<codeFence, "py">>

BCodeNoLang == <<LFence, LEchoFoo, LFence>>

BCodePy == <<LFencePy, LEchoFoo, LFence>>

CodeBlocks == {BCodeNoLang, BCodePy, BSetBar, BAskName}

CodeDocs == DocsOf(CodeBlocks, MaxBlocks)

InitCode == InitRunWith(CodeDocs, {<<>>}, {<<>>})

SpecCode == InitCode /\ [][NextRun]_vars

(***************************************************************************)
(* parsePrompt on its own, on lines put together from a name, a quoted     *)
(* text, an option group and a default, each present, absent or malformed. *)
(***************************************************************************)
PromptNames == {<<"NAME">>, <<>>}

PromptTexts == {<<"\"q\"">>, <<>>}

PromptGroups == {<<>>, <<"[", "y", " ", "n", "]">>, <<"[", "]">>, <<"[", "y", " ", "n">>}

PromptDefaults == {<<>>, <<"n">>, <<"n", " ", "z">>}

PromptParts ==
    [name : PromptNames, text : PromptTexts, group : PromptGroups,
     default : PromptDefaults, swap : BOOLEAN, close : BOOLEAN, wide : BOOLEAN]

\* The parts that are present, separated by sep.
RECURSIVE JoinParts(_, _)
JoinParts(parts, sep) ==
    IF parts = <<>> THEN <<>>
    ELSE IF Head(parts) = <<>> THEN JoinParts(Tail(parts), sep)
    ELSE LET rest == JoinParts(Tail(parts), sep)
         IN  IF rest = <<>> THEN Head(parts) ELSE Head(parts) \o sep \o rest

PromptLine(c) ==
    <<"[prompt]:#", " ", "(">>
        \o JoinParts(IF c.swap THEN <<c.name, c.text, c.default, c.group>>
                               ELSE <<c.name, c.text, c.group, c.default>>,
                     IF c.wide THEN <<" ", " ">> ELSE <<" ">>)
        \o (IF c.close THEN <<")">> ELSE <<>>)

GrammarLines == {PromptLine(c) : c \in PromptParts}

InitGrammar ==
    /\ doc \in {<<line>> : line \in GrammarLines}
    /\ start = <<>>
    /\ userTags = <<>>
    /\ kinds = <<>>
    /\ scan = ScanInit
    /\ picked = <<>>
    /\ filtered = <<>>
    /\ pc = "call"
    /\ RunIdle

\* pd, err := parsePrompt(line)
CallParsePrompt ==
    /\ pc = "call"
    /\ hist' = Append(hist, [NoEvent EXCEPT !.ev = "parsePrompt", !.code = doc,
                                            !.res = parsePrompt(doc[1])])
    /\ pc' = "done"
    /\ UNCHANGED <<inputVars, race, filtered, i, w, asked, lastAns, ret, environ, runners, depth, exited>>

NextGrammar == CallParsePrompt

SpecGrammar == InitGrammar /\ [][NextGrammar]_vars

(***************************************************************************)
(* normalizeAnchor on its own: applied to a heading text, then to its own  *)
(* result.                                                                 *)
(***************************************************************************)
HeadingChars == {"A", "a", "B", "1", " ", "-", "!"}

Headings == UNION {[1..n -> HeadingChars] : n \in 0..MaxHeading}

InitAnchor ==
    /\ doc \in {<<h>> : h \in Headings}
    /\ start = <<>>
    /\ userTags = <<>>
    /\ kinds = <<>>
    /\ scan = ScanInit
    /\ picked = <<>>
    /\ filtered = <<>>
    /\ pc = "call"
    /\ RunIdle

AnchorEvent(header) ==
    [NoEvent EXCEPT !.ev = "normalizeAnchor", !.code = <<header>>,
                    !.res = normalizeAnchor(header)]

\* anchor := normalizeAnchor(header)
CallNormalize ==
    /\ pc = "call"
    /\ hist' = Append(hist, AnchorEvent(doc[1]))
    /\ pc' = "again"
    /\ UNCHANGED <<inputVars, race, filtered, i, w, asked, lastAns, ret, environ, runners, depth, exited>>

\* normalizeAnchor(anchor)
CallNormalizeAgain ==
    /\ pc = "again"
    /\ hist' = Append(hist, AnchorEvent(hist[1].res))
    /\ pc' = "done"
    /\ UNCHANGED <<inputVars, race, filtered, i, w, asked, lastAns, ret, environ, runners, depth, exited>>

NextAnchor == CallNormalize \/ CallNormalizeAgain

SpecAnchor == InitAnchor /\ [][NextAnchor]_vars

(***************************************************************************)
(* PrintTOC, on documents of headers (at the start of the line and         *)
(* indented), text, tags directives and a code block with a # line.        *)
(***************************************************************************)
\* fmt.Fprintf(w, "%s- %s (%s)\n", indent, header, anchor), with
\* indent := strings.Repeat("  ", level-1)
TOCLine(h) ==
    Item("toc", [indent |-> 2 * (h.level - 1), header |-> h.clean,
                 anchor |-> normalizeAnchor(h.clean)])

\* The loop over the sections; strings.Repeat panics on a negative count.
RECURSIVE PrintTOCFrom(_, _)
PrintTOCFrom(secs, out) ==
    IF secs = <<>> THEN [w |-> out, ret |-> "nil"]
    ELSE IF Head(secs).Type # "Header" THEN PrintTOCFrom(Tail(secs), out)
    ELSE IF getHeadingText(Head(secs).Lines[1]).level - 1 < 0
         THEN [w |-> out, ret |-> "panic"]
    ELSE PrintTOCFrom(Tail(secs),
                      Append(out, TOCLine(getHeadingText(Head(secs).Lines[1]))))

PrintTOC(mdContent) == PrintTOCFrom(parseSections(mdContent, <<>>, <<>>), <<>>)

LHeaderIndented == <<" ", "#", " ", "A">>

BCodeHash == <<LFenceBash, LHeaderA, LFence>>

TOCBlocks ==
    {<<LHeaderA>>, <<LHeaderB>>, <<LHeaderIndented>>, <<LText>>, <<LTagsFoo>>, BCodeHash}

TOCDocs == DocsOf(TOCBlocks, MaxBlocks)

InitTOC == InitRunWith(TOCDocs, {<<>>}, {<<>>})

\* err := PrintTOC(w, mdContent)
CallPrintTOC ==
    /\ pc = "call"
    /\ w' = PrintTOC(doc).w
    /\ ret' = PrintTOC(doc).ret
    /\ pc' = "done"
    /\ UNCHANGED <<inputVars, race, filtered, i, asked, lastAns, environ, runners, depth, hist, exited>>

NextTOC == CallPrintTOC

SpecTOC == InitTOC /\ [][NextTOC]_vars

(***************************************************************************)
(* The runners on their own: calls of GetRunner(lang).Run(code), one after *)
(* the other, as the runner tests make them.                               *)
(***************************************************************************)
SHello     == <<<<"echo hello">>>>
SSetBar    == <<LSetBar>>
SEchoFoo   == <<LEchoFoo>>
SHelloExit == <<<<"echo hello">>, <<"exit 1">>>>
SMarker    == <<<<"echo __END_OF_SNIPPET__">>, <<"echo hello">>>>
SPartial   == <<<<"printf part">>>>
SPartKill  == <<<<"echo hello">>, <<"printf part">>, <<"kill -9 $$">>>>

StreamSnippets == {SHello, SSetBar, SEchoFoo, SHelloExit, SMarker, SPartial, SPartKill}

VExit0     == <<<<"exit 0">>>>
VExit1     == <<<<"exit 1">>>>
VReturn1   == <<<<"return 1">>>>
VUnknown   == <<<<"unknown-command">>>>
VHelloRet  == <<<<"echo hello">>, <<"return 1">>>>
VExitThen  == <<<<"exit 1">>, <<"echo hello">>>>
VForged    == <<<<"echo __END_OF_SNIPPET__">>, <<"echo __EXIT_CODE__ 0">>, <<"return 1">>>>
VNoInt     == <<<<"echo __END_OF_SNIPPET__">>, <<"echo __EXIT_CODE__ x">>>>
VOther     == <<<<"echo __END_OF_SNIPPET__">>, <<"echo __OTHER__ 0">>>>
VKill      == <<<<"kill -9 $$">>>>

VerifySnippets ==
    {SHello, VExit0, VExit1, VReturn1, VUnknown, VHelloRet, VExitThen, VForged,
     VNoInt, VOther, VKill}

Calls ==
    {<<<<"bash">>, c>> : c \in StreamSnippets} \cup {<<<<"verify">>, c>> : c \in VerifySnippets}

InitRunner ==
    /\ doc = <<>>
    /\ start = <<>>
    /\ userTags = <<>>
    /\ kinds = <<>>
    /\ scan = ScanInit
    /\ picked = <<>>
    /\ filtered = <<>>
    /\ pc = "runner"
    /\ RunIdle

CallDone(fam, code, rs, r) ==
    /\ runners' = [rs EXCEPT ![fam] = r.sh]
    /\ hist' = Append(hist, RunEvent(fam, code, rs[fam], r))
    /\ pc' = IF r.hang THEN "blocked" ELSE pc

CallOn(fam, code, rs) == CallDone(fam, code, rs, Run(fam, rs[fam], code))

\* runner := GetRunner(lang); out, err := runner.Run(code)
CallRun ==
    /\ pc = "runner"
    /\ Len(hist) < MaxRuns
    /\ \E call \in Calls :
          CallOn(Family(call[1]), call[2], GetRunner(runners, call[1], environ))
    /\ UNCHANGED <<inputVars, race, filtered, i, w, asked, lastAns, ret, environ, depth, exited>>

NextRunner == CallRun

SpecRunner == InitRunner /\ [][NextRunner]_vars

(***************************************************************************)
(* The registry on its own: calls of GetRunner(lang) with known and        *)
(* unknown keys, and calls of Run on a runner GetRunner has returned.      *)
(***************************************************************************)
Keys == {<<"bash">>, <<"sh">>, <<"shell">>, <<"verify">>, <<>>, <<"py">>}

RegistrySnippets == {SSetBar, SEchoFoo}

\* The history's record of one call of GetRunner(lang) on the registry rs:
\* fam is the singleton returned ("none" for nil), spawn whether a shell
\* process was started by the call.
GetEvent(fam, lang, rs, after) ==
    [NoEvent EXCEPT !.ev = "get", !.fam = fam, !.k = lang,
                    !.before = IF fam = "none" THEN NoRunner ELSE rs[fam],
                    !.res = after,
                    !.spawn = \E f \in Families : after[f].spawned /\ ~rs[f].spawned]

CallGetOn(lang, after) ==
    /\ runners' = after
    /\ hist' = Append(hist, GetEvent(Family(lang), lang, runners, after))

\* runner := GetRunner(lang)
CallGet ==
    /\ pc = "runner"
    /\ Len(hist) < MaxRuns
    /\ \E lang \in Keys : CallGetOn(lang, GetRunner(runners, lang, environ))
    /\ UNCHANGED <<inputVars, race, filtered, pc, i, w, asked, lastAns, ret, environ, depth, exited>>

\* runner.Run(code) on a runner an earlier GetRunner(lang) returned
CallRunOn ==
    /\ pc = "runner"
    /\ Len(hist) < MaxRuns
    /\ \E fam \in Families, code \in RegistrySnippets :
          /\ runners[fam].spawned
          /\ CallOn(fam, code, runners)
    /\ UNCHANGED <<inputVars, race, filtered, i, w, asked, lastAns, ret, environ, depth, exited>>

NextRegistry == CallGet \/ CallRunOn

SpecRegistry == InitRunner /\ [][NextRegistry]_vars

(***************************************************************************)
(* GetRunner called from several goroutines.  The code takes no lock, so   *)
(* a call is four steps that other calls may come between: the switch and  *)
(* the test of the package variable, the constructor, the assignment, and  *)
(* the read of the package variable for the return value.  A process is    *)
(* named by its position in race.procs.                                    *)
(***************************************************************************)
InitRace ==
    /\ doc = <<>>
    /\ start = <<>>
    /\ userTags = <<>>
    /\ kinds = <<>>
    /\ scan = ScanInit
    /\ picked = <<>>
    /\ filtered = <<>>
    /\ pc = "race"
    /\ RunIdle

raceFrame ==
    <<inputVars, filtered, pc, i, w, asked, lastAns, ret, environ, depth, hist, exited>>

\* switch lang { case ...: if bashRunner == nil {
RaceTest ==
    /\ pc = "race"
    /\ \E t \in 1..MaxThreads, lang \in Keys :
          /\ race.th[t].at = "idle"
          /\ race' = [race EXCEPT
                !["th"][t] = [@ EXCEPT
                    !.lang = lang,
                    !.at = IF Family(lang) = "none" THEN "done"
                           ELSE IF race.reg[Family(lang)] = 0 THEN "new"
                           ELSE "return"]]
    /\ UNCHANGED <<raceFrame, runners>>

\* runner, err := NewBashRunner()
RaceNew ==
    /\ pc = "race"
    /\ \E t \in 1..MaxThreads :
          /\ race.th[t].at = "new"
          /\ race' = [race EXCEPT
                !.procs = Append(@, Family(race.th[t].lang)),
                !["th"][t] = [@ EXCEPT !.local = Len(race.procs) + 1, !.at = "assign"]]
    /\ UNCHANGED <<raceFrame, runners>>

\* bashRunner = runner
RaceAssign ==
    /\ pc = "race"
    /\ \E t \in 1..MaxThreads :
          /\ race.th[t].at = "assign"
          /\ race' = [race EXCEPT
                !.reg[Family(race.th[t].lang)] = race.th[t].local,
                !["th"][t] = [@ EXCEPT !.at = "return"]]
          /\ runners' = [runners EXCEPT ![Family(race.th[t].lang)] = newRunnerIO(environ)]
    /\ UNCHANGED raceFrame

\* return bashRunner
RaceReturn ==
    /\ pc = "race"
    /\ \E t \in 1..MaxThreads :
          /\ race.th[t].at = "return"
          /\ race' = [race EXCEPT
                !["th"][t] = [@ EXCEPT !.result = race.reg[Family(race.th[t].lang)],
                                        !.at = "done"]]
    /\ UNCHANGED <<raceFrame, runners>>

NextRace == RaceTest \/ RaceNew \/ RaceAssign \/ RaceReturn

SpecRace == InitRace /\ [][NextRace]_vars

(***************************************************************************)
(* Vocabulary of the parser claims.                                        *)
(***************************************************************************)
Range(s) == {s[k] : k \in DOMAIN s}

ParseDone == pc = "done"

\* The segmentation the filter pass worked on.
Segmented == scan.sections

HasAlways(sec) == "always" \in Range(sec.Tags)

AnchorOf(sec) == normalizeAnchor(getHeadingText(sec.Lines[1]).clean)

MatchingHeaders ==
    {k \in 1..Len(Segmented) :
        Segmented[k].Type = "Header" /\ AnchorOf(Segmented[k]) = start}

Min(S) == CHOOSE x \in S : \A y \in S : x <= y

Max(S) == CHOOSE x \in S : \A y \in S : x >= y

\* The start point: the first section when no anchor is requested, else the
\* first Header whose anchor is the requested one (0 when there is none).
StartPoint ==
    IF start = <<>> THEN 1
    ELSE IF MatchingHeaders = {} THEN 0
    ELSE Min(MatchingHeaders)

PassesTagFilter(sec) ==
    \/ userTags = <<>>
    \/ \E t \in Range(sec.Tags) : t \in Range(userTags) \/ t = "always"

Present(k) ==
    \E j \in 1..Len(filtered) :
        /\ j <= Len(picked)
        /\ picked[j] = k
        /\ filtered[j] = Segmented[k]

\* C1 as stated: every section tagged always is in the result, whatever the
\* start anchor is (matching or not).
C1_AlwaysPresentAnyAnchor ==
    ParseDone =>
        \A k \in 1..Len(Segmented) : HasAlways(Segmented[k]) => Present(k)

\* C1, amended: when the start anchor is empty or is the anchor of at least
\* one Header section, every section tagged always is in the result, for
\* every requested tag list.
C1_AlwaysPresentWhenStarted ==
    (ParseDone /\ StartPoint > 0) =>
        \A k \in 1..Len(Segmented) : HasAlways(Segmented[k]) => Present(k)

\* An always section that lies before the start point, with a tag list that
\* names none of its tags, is in the result.
C1_Witness ==
    /\ ParseDone
    /\ start # <<>>
    /\ userTags = <<"baz">>
    /\ \E k \in 1..Len(Segmented) :
          /\ 0 < k /\ k < StartPoint
          /\ HasAlways(Segmented[k])
          /\ Present(k)

\* The indices the claim C3 selects.
SelectedFromStart ==
    SelectSeq([k \in 1..Len(Segmented) |-> k],
              LAMBDA k : \/ k < StartPoint /\ HasAlways(Segmented[k])
                         \/ k >= StartPoint /\ PassesTagFilter(Segmented[k]))

\* C3: when the start anchor is the anchor of some Header, the result is, in
\* document order, the always sections before the first such Header and then
\* every section from that Header on that passes the tag filter.
C3_StartSelectsFromFirstMatch ==
    (ParseDone /\ start # <<>> /\ MatchingHeaders # {}) =>
        /\ picked = SelectedFromStart
        /\ filtered = [j \in 1..Len(picked) |-> Segmented[picked[j]]]

\* A second Header with the requested anchor, an always section kept from
\* before the first one.
C3_Witness ==
    /\ ParseDone
    /\ start # <<>>
    /\ Cardinality(MatchingHeaders) >= 2
    /\ \E k \in 1..Len(Segmented) :
          k < StartPoint /\ HasAlways(Segmented[k]) /\ Present(k)
    /\ Len(filtered) >= 3

\* C4: from the start point on, a section is in the result if and only if
\* no tag is requested, or one of its tags is requested or is always.
C4_TagFilter ==
    (ParseDone /\ StartPoint > 0) =>
        \A k \in StartPoint..Len(Segmented) :
            (k \in Range(picked)) <=>
                (\/ userTags = <<>>
                 \/ \E t \in Range(Segmented[k].Tags) :
                        t \in Range(userTags) \/ t = "always")

\* Requesting always alone leaves out a section tagged only foo and a
\* section with no tags, and keeps an always section.
C4_Witness ==
    /\ ParseDone
    /\ StartPoint > 0
    /\ userTags = <<"always">>
    /\ \E k \in StartPoint..Len(Segmented) :
          Segmented[k].Tags = <<"foo">> /\ k \notin Range(picked)
    /\ \E k \in StartPoint..Len(Segmented) :
          Segmented[k].Tags = <<>> /\ k \notin Range(picked)

(***************************************************************************)
(* Where each section starts in the document: the sections' lines are the  *)
(* document's lines, tags directives left out.                             *)
(***************************************************************************)
NonTagPos ==
    SelectSeq([p \in 1..Len(doc) |-> p], LAMBDA p : kinds[p] # "tags")

AllSections == IF pc = "done" THEN scan.sections ELSE Flush(scan)

RECURSIVE LinesBefore(_, _)
LinesBefore(secs, j) ==
    IF j <= 1 THEN 0 ELSE Len(secs[j - 1].Lines) + LinesBefore(secs, j - 1)

SecFirst(j) == NonTagPos[1 + LinesBefore(AllSections, j)]

HeaderPos == {p \in 1..Len(doc) : kinds[p] = "header"}

\* The tags declared by the tags directives strictly between lines lo and hi.
DeclaredBetween(lo, hi) ==
    UNION {Range(parseTags(TrimSpace(doc[p])).tags) :
              p \in {q \in (lo + 1)..(hi - 1) : kinds[q] = "tags"}}

\* C5: the tags declared between a header line A and the next header line B
\* are on no section that starts at B or later, unless declared again after B.
C5_NoLeakAcrossHeaders ==
    \A b \in HeaderPos :
        (\E a \in HeaderPos : a < b) =>
            LET a == Max({h \in HeaderPos : h < b})
            IN  \A j \in 1..Len(AllSections) :
                    SecFirst(j) >= b =>
                        \A t \in Range(AllSections[j].Tags) :
                            t \in DeclaredBetween(a, b) =>
                                t \in DeclaredBetween(b, Len(doc) + 1)

\* Sanity of SecFirst: the line it names is the section's first line.
SecFirstIsFirstLine ==
    \A j \in 1..Len(AllSections) :
        /\ 1 + LinesBefore(AllSections, j) <= Len(NonTagPos)
        /\ doc[SecFirst(j)] = AllSections[j].Lines[1]

(***************************************************************************)
(* Vocabulary of the orchestrator claims.                                  *)
(***************************************************************************)
RunDone == pc = "done"

\* The segmentation of the document the run was given.
RunSegmented == Segment(doc)

RunMatchingHeaders ==
    {k \in 1..Len(RunSegmented) :
        RunSegmented[k].Type = "Header" /\ AnchorOf(RunSegmented[k]) = start}

NoMatchingHeader == start # <<>> /\ RunMatchingHeaders = {}

BannerAt == {k \in 1..Len(w) : w[k] = Banner}

SectionsPrinted == {k \in 1..Len(w) : w[k].k \in {"section", "lines"}}

\* C2: when the start anchor is non-empty and is the anchor of no Header
\* section, parseSections returns the empty sequence for every requested tag
\* list, and RunMarkdown prints no section and returns no error.
C2_NoMatchNothingToRun ==
    NoMatchingHeader =>
        /\ \A tags \in TagLists : parseSections(doc, start, tags) = <<>>
        /\ pc # "call" => filtered = <<>>
        /\ SectionsPrinted = {}
        /\ asked = <<>>
        /\ ret # "error"
        /\ RunDone => ret = "nil"

\* A run over a document that has a section tagged always, started at an
\* anchor no Header has, has returned having written the banner alone.
C2_Witness ==
    /\ RunDone
    /\ NoMatchingHeader
    /\ \E k \in 1..Len(RunSegmented) : HasAlways(RunSegmented[k])
    /\ \E k \in 1..Len(RunSegmented) : RunSegmented[k].Type = "Header"
    /\ w = <<Banner>>
    /\ ret = "nil"

\* C6: once the operator has answered x to a question of a code section,
\* the run has halted: RunMarkdown has returned nil, nothing was written and
\* nothing was asked after that answer, and no banner was written.
C6_ExitAtCodeHalts ==
    (exited.chosen /\ exited.at = "code") =>
        /\ RunDone
        /\ ret = "nil"
        /\ Len(w) = exited.w
        /\ Len(asked) = exited.asked
        /\ BannerAt = {}

HeaderStep == InLoop /\ Sec.Type = "Header"

NextIsHeader == i < Len(filtered) /\ filtered[i + 1].Type = "Header"

\* C7: the step that prints a Header section asks the operator if and only
\* if a next section exists and is a Header; on the answer exit, in any
\* letter case, the run halts with nothing of the next section written; on
\* any other answer, and when nothing is asked, the run goes on to the next
\* section.
C7_HeaderStep ==
    [][HeaderStep =>
          LET printed == Item("section", Sec.Lines)
          IN  /\ NextIsHeader <=> Len(asked') = Len(asked) + 1
              /\ ~NextIsHeader => asked' = asked
              /\ (NextIsHeader /\ IsExitWord(lastAns')) =>
                    /\ pc' = "done"
                    /\ ret' = "nil"
                    /\ w' = Append(w, printed)
              /\ (NextIsHeader /\ ~IsExitWord(lastAns')) =>
                    /\ pc' = "loop"
                    /\ i' = i + 1
                    /\ w' = w \o <<printed, Newline>>
              /\ ~NextIsHeader =>
                    /\ pc' = "loop"
                    /\ i' = i + 1
                    /\ w' = Append(w, printed)]_vars

\* The operator answered Exit at a header question and the run halted there,
\* with the following Header section not written.
C7_Witness ==
    /\ RunDone
    /\ exited.chosen
    /\ exited.at = "header"
    /\ lastAns = <<"E", "x", "i", "t">>
    /\ NextIsHeader
    /\ w[Len(w)] = Item("section", Sec.Lines)
    /\ BannerAt = {}

\* C8: the banner is written at most once and only as the last output; a
\* run that has returned wrote it if and only if the operator never chose
\* exit; once the operator has chosen exit nothing more is written and
\* RunMarkdown has returned nil.
C8_BannerIffNoExit ==
    /\ Cardinality(BannerAt) <= 1
    /\ \A k \in BannerAt : k = Len(w) /\ RunDone
    /\ RunDone => (BannerAt # {} <=> ~exited.chosen)
    /\ exited.chosen =>
          /\ RunDone
          /\ ret = "nil"
          /\ Len(w) = exited.w

(***************************************************************************)
(* What the executed snippets printed, read from the history of the run.   *)
(***************************************************************************)
Executed == {e \in 1..Len(hist) : hist[e].ev = "run" /\ hist[e].ran}

Echoes == {LEchoFoo, LEchoName}

Assignments == {LSetBar, LSetBaz}

AssignedValue(line) == IF line = LSetBar THEN <<"bar">> ELSE <<"baz">>

\* The output line that line p of the snippet of execution e printed.
Observed(e, p) ==
    hist[e].out[Cardinality({q \in 1..p : hist[e].code[q] \in Echoes})]

\* The prompts resolved before execution e.
ResolvedBefore(e) ==
    {a \in 1..(e - 1) : hist[a].ev = "setenv" /\ hist[a].k = <<"NAME">>}

\* C9: a snippet executed after a prompt resolved NAME to v sees NAME = v:
\* its echo $NAME prints v.
C9_PromptValueReachesSnippets ==
    \A e \in Executed :
        \A p \in 1..Len(hist[e].code) :
            (hist[e].code[p] = LEchoName /\ ResolvedBefore(e) # {}) =>
                Observed(e, p) = hist[Max(ResolvedBefore(e))].v

\* The lines executed on the runner of family fam by the first n events.
RECURSIVE LinesOn(_, _)
LinesOn(fam, n) ==
    IF n = 0 THEN <<>>
    ELSE LinesOn(fam, n - 1) \o
         (IF n \in Executed /\ hist[n].fam = fam THEN hist[n].code ELSE <<>>)

\* The lines executed on the runner of execution e before its line p.
LinesBeforeLine(e, p) ==
    LinesOn(hist[e].fam, e - 1) \o SubSeq(hist[e].code, 1, p - 1)

LastAssigned(lines) ==
    LET at == {q \in 1..Len(lines) : lines[q] \in Assignments}
    IN  IF at = {} THEN <<>> ELSE AssignedValue(lines[Max(at)])

\* C10: an executed echo $foo prints the value of the latest assignment to
\* foo among the lines executed before it on the same runner, in the order
\* the snippets were submitted; skipped snippets count for nothing.
C10_ShellStatePersists ==
    \A e \in Executed :
        \A p \in 1..Len(hist[e].code) :
            hist[e].code[p] = LEchoFoo =>
                Observed(e, p) = LastAssigned(LinesBeforeLine(e, p))

\* foo=bar, then foo=baz, then echo $foo were run on the bash runner, and
\* the echo printed baz.
C10_Witness ==
    /\ Len(hist) = 3
    /\ hist[1].code = <<LSetBar>> /\ hist[1].fam = "bash"
    /\ hist[2].code = <<LSetBaz>> /\ hist[2].fam = "bash"
    /\ hist[3].code = <<LEchoFoo, LEchoName>> /\ hist[3].fam = "bash"
    /\ Executed = {1, 2, 3}
    /\ Observed(3, 1) = <<"baz">>

(***************************************************************************)
(* Vocabulary of the runner claims: the calls of Run in the history.       *)
(***************************************************************************)
RunsOn(fam) == {e \in 1..Len(hist) : hist[e].ev = "run" /\ hist[e].fam = fam}

\* The runner was alive with nothing unread and nothing unterminated in its
\* stdout when the call was made.
InSync(e) ==
    /\ hist[e].before.alive
    /\ hist[e].before.pending = <<>>
    /\ hist[e].before.partial = <<>>

\* The next call on the same runner, 0 when there is none.
NextOn(e) ==
    LET later == {f \in RunsOn(hist[e].fam) : f > e}
    IN  IF later = {} THEN 0 ELSE Min(later)

\* The lines, each followed by one newline.
RECURSIVE TextOf(_)
TextOf(lines) ==
    IF lines = <<>> THEN <<>>
    ELSE TextOf(SubSeq(lines, 1, Len(lines) - 1)) \o lines[Len(lines)] \o <<"\n">>

\* The snippet's output is complete lines, none of them the marker line.
PlainOutput(e) ==
    /\ hist[e].res.ran
    /\ hist[e].res.tail = <<>>
    /\ <<marker>> \notin Range(hist[e].res.printed)

C12_NoInterleaving ==
    \A e \in RunsOn("bash") :
        (InSync(e) /\ NextOn(e) # 0) =>
            \A j \in 1..Len(hist[NextOn(e)].res.out) :
                hist[NextOn(e)].res.out[j] \in
                    Range(hist[NextOn(e)].res.printed) \cup {hist[NextOn(e)].res.tail}

\* The wrapped snippet's verdict: Success for status 0, else Failure with
\* the status, and a newline.
VerdictText(status) ==
    IF status = 0 THEN <<"Success", "\n">>
    ELSE <<"Failure", StatusTok(status), "\n">>

\* The snippet ran to the end of the wrapper with the shell alive.
Survived(e) == hist[e].res.ran /\ hist[e].res.sh.alive /\ ~hist[e].res.hang

\* C13: VerifyRunner.Run returns Success with a nil error exactly when the
\* wrapped snippet's status is 0 and else Failure with that status, also
\* with a nil error, whatever the snippet printed.
C13_VerifyStatusMapping ==
    \A e \in RunsOn("verify") :
        (InSync(e) /\ hist[e].res.ran /\ hist[e].res.sh.alive /\ hist[e].res.tail = <<>>) =>
            /\ ~hist[e].res.hang
            /\ hist[e].res.why = "none"
            /\ hist[e].res.text = VerdictText(hist[e].res.status)

ExitLines == {<<"exit 0">>, <<"exit 1">>}

CallsExit(e) == \E p \in 1..Len(hist[e].code) : hist[e].code[p] \in ExitLines

ExitPos(code) == Min({p \in 1..Len(code) : code[p] \in ExitLines})

ExitStatus(line) == IF line = <<"exit 0">> THEN 0 ELSE 1

\* C15: a verify snippet that calls exit N executes none of the commands
\* after the call, and Run reports the status N.
C15_VerifyExitReturns ==
    \A e \in RunsOn("verify") :
        (InSync(e) /\ CallsExit(e)) =>
            LET p == ExitPos(hist[e].code)
                upto == ExecLines(ExecStart(hist[e].before), SubSeq(hist[e].code, 1, p), TRUE)
            IN  /\ hist[e].res.printed = upto.out
                /\ hist[e].res.text = VerdictText(ExitStatus(hist[e].code[p]))

\* The line after the output marker is the exit marker and one integer.
WellFormedExitLine(line) ==
    /\ Len(Fields(line)) = 2
    /\ Fields(line)[1] = exitMarker
    /\ Fields(line)[2] \in {"0", "1", "2", "127"}

\* C16: VerifyRunner.Run returns an error and no verdict when the line after
\* the output marker is missing or is not the exit marker followed by one
\* integer; a failed write is returned as the error.
C16_VerifyProtocolErrors ==
    \A e \in RunsOn("verify") :
        /\ ~hist[e].before.alive =>
              /\ hist[e].res.why = "write"
              /\ hist[e].res.text = <<>>
              /\ ~hist[e].res.ran
        /\ (hist[e].res.ran /\ ~hist[e].res.hang
              /\ (~hist[e].res.present \/ ~WellFormedExitLine(hist[e].res.xline))) =>
              /\ hist[e].res.why = "parse"
              /\ hist[e].res.text = <<>>

\* A verify snippet killed the shell: no line followed the marker's place
\* and Run returned an error and no verdict; the next Run failed on its
\* write.
C16_Witness ==
    /\ Len(hist) = 2
    /\ hist[1].fam = "verify" /\ hist[1].code = VKill
    /\ hist[1].res.ran /\ ~hist[1].res.present
    /\ hist[1].res.why = "parse" /\ hist[1].res.text = <<>>
    /\ hist[2].fam = "verify" /\ hist[2].res.why = "write"

\* C17: a streaming Run whose stream ended before the marker line was read
\* returns an error.
C17_MissingMarkerIsError ==
    \A e \in RunsOn("bash") :
        (hist[e].res.ran /\ ~hist[e].res.hang /\ ~hist[e].res.found) =>
            hist[e].res.why # "none"

\* The calls of Run that returned an error.
FailedRuns == {e \in 1..Len(hist) : hist[e].ev = "run" /\ hist[e].res.why # "none"}

\* C18: once a runner's Run has returned an error for a code section, the
\* error is the last thing written, the run has halted and RunMarkdown has
\* returned the error.
C18_TransportErrorHalts ==
    FailedRuns # {} =>
        /\ RunDone
        /\ ret = "error"
        /\ w # <<>> /\ w[Len(w)].k = "error"

(***************************************************************************)
(* Vocabulary of the prompt claims.                                        *)
(***************************************************************************)
AtPrompt == InLoop /\ Sec.Type = "Prompt"

\* The directive of the Prompt section the run is at.
Directive == parsePrompt(TrimSpace(Sec.Lines[1]))

Resolved(ans) == IF ans = <<>> /\ Directive.Default # <<>> THEN Directive.Default ELSE ans

Accepted(ans) ==
    \/ Directive.Options = <<>>
    \/ \E o \in Range(Directive.Options) : Resolved(ans) = <<o>>

\* C19: at a Prompt section with a well-formed directive the operator is
\* asked; an empty response stands for the Default when there is one; with
\* Options the resolved response is accepted if and only if it is one of
\* them, with no Options every response is accepted; an accepted response
\* is stored under VarName, a refused one stores nothing and is reported.
C19_PromptResolution ==
    [][(AtPrompt /\ ~Directive.err) =>
          /\ Len(asked') = Len(asked) + 1
          /\ Accepted(lastAns') =>
                /\ environ' = Put(environ, Directive.VarName, Resolved(lastAns'))
                /\ i' = i + 1
                /\ w' = Append(w, Newline)
          /\ ~Accepted(lastAns') =>
                /\ environ' = environ
                /\ i' = i
                /\ w' = Append(w, Item("prompterr", <<>>))]_vars

\* After an empty response to a directive with options y n and default n,
\* NAME is n; before that a z was refused.
C19_Witness ==
    /\ pc = "loop"
    /\ i = 2
    /\ filtered[1].Lines = <<LPromptOpt>>
    /\ lastAns = <<>>
    /\ Lookup(environ, <<"NAME">>) = <<"n">>
    /\ w = <<Item("prompterr", <<>>), Newline>>
    /\ Len(asked) = 2

\* C20: at every Prompt section there is an operator response that is asked
\* for and accepted, after which the run goes on to the next section; and
\* every failed resolution came with a question to the operator.
C20_PromptRecoverable ==
    /\ AtPrompt =>
          \E ans \in PromptAnswers :
              /\ processPrompt(ans, Sec.Lines).asked
              /\ ~processPrompt(ans, Sec.Lines).err
    /\ Cardinality({k \in 1..Len(w) : w[k].k = "prompterr"})
          <= Cardinality({k \in 1..Len(asked) : asked[k].q = "prompt"})

(***************************************************************************)
(* Claims about the runner registry, checked in SpecRegistry.              *)
(***************************************************************************)
Gets == {n \in 1..Len(hist) : hist[n].ev = "get"}

GetsOf(fam) == {n \in Gets : hist[n].fam = fam}

Spawns == {n \in Gets : hist[n].spawn}

\* The state the singleton of family fam was left in before event n: by the
\* latest earlier call of GetRunner or Run on it, or never spawned.
LeftBefore(fam, n) ==
    LET prev == {m \in 1..(n - 1) : hist[m].fam = fam}
    IN  IF prev = {} THEN NoRunner
        ELSE IF hist[Max(prev)].ev = "get" THEN hist[Max(prev)].res[fam]
        ELSE hist[Max(prev)].res.sh

KnownKey(lang) == lang \in {<<"bash">>, <<"sh">>, <<"shell">>, <<"verify">>}

SameRunner(a, b) ==
    \/ a = b
    \/ {a, b} = {<<"sh">>, <<"shell">>}

AtCode == InLoop /\ Sec.Type = "Code"

\* A code section with a body whose fence names no runner.
NoRunnerSection(sec) ==
    /\ sec.Type = "Code"
    /\ Len(sec.Lines) > 2
    /\ ~KnownKey(Language(sec.Lines[1]))

QuestionsAt(n) == {k \in 1..Len(asked) : asked[k].at = n}

RunEvents == {k \in 1..Len(hist) : hist[k].ev = "run"}

\* C22: at a code section with a non-empty body whose fence language is empty
\* or has no runner, the orchestrator asks the press-Enter question, invokes
\* no Run and goes on to the next section whatever the answer is; it asks
\* nothing else in that section.
C22_NoRunnerSection ==
    /\ [](pc # "call" =>
            \A n \in 1..Len(filtered) :
                NoRunnerSection(filtered[n]) =>
                    /\ Cardinality(QuestionsAt(n)) <= 1
                    /\ \A k \in QuestionsAt(n) : asked[k].q = "enter")
    /\ [][(AtCode /\ NoRunnerSection(Sec)) =>
              /\ asked' = Append(asked, [q |-> "enter", at |-> i])
              /\ hist' = hist
              /\ runners' = runners
              /\ i' = i + 1
              /\ pc' = "loop"
              /\ ret' = "none"]_vars

\* C22 witness: a fence without a language and a py fence each got the one
\* question, the last answer was x, and the run went on past both sections
\* with nothing executed.
C22_Witness ==
    /\ doc = BCodeNoLang \o BCodePy
    /\ pc = "loop"
    /\ i = 3
    /\ asked = <<[q |-> "enter", at |-> 1], [q |-> "enter", at |-> 2]>>
    /\ lastAns = <<"x">>
    /\ ret = "none"
    /\ hist = <<>>

\* What the operator typed at a code question, read without the code's help.
IsSkip(ans) == TrimSpace(ans) \in {<<>>, <<"s">>, <<"S">>}

IsR(ans) == TrimSpace(ans) \in {<<"r">>, <<"R">>}

Answered(q) ==
    /\ Len(asked') = Len(asked) + 1
    /\ asked'[Len(asked')].q = q

Executes ==
    /\ Len(hist') = Len(hist) + 1
    /\ hist'[Len(hist')].ev = "run"

\* C23: answering the run/skip/exit question with s or with nothing executes
\* nothing, writes nothing and leaves the shells alone, and every execution of
\* a snippet happens on a non-empty answer, so that a run of empty answers
\* invokes no Run.
C23_SkipIsDefault ==
    [][/\ (Answered("run") /\ IsSkip(lastAns')) =>
             /\ hist' = hist
             /\ runners' = runners
             /\ w' = w
             /\ pc' = "loop"
             /\ i' = i + 1
       /\ Executes =>
             /\ Answered("run") \/ Answered("rerun")
             /\ TrimSpace(lastAns') # <<>>]_vars

\* C23 witness: the operator gave the empty answer at a bash snippet and the
\* run is past the section with nothing executed and nothing printed but
\* the section.
C23_Witness ==
    /\ doc = BSetBar
    /\ pc = "loop"
    /\ i = 2
    /\ asked = <<[q |-> "run", at |-> 1]>>
    /\ lastAns = <<>>
    /\ hist = <<>>
    /\ w = <<Item("section", BSetBar)>>
    /\ runners["bash"].spawned
    /\ Lookup(runners["bash"].vars, <<"foo">>) = <<>>

Unrecognized(ans) == ~IsSkip(ans) /\ ~IsX(ans) /\ ~IsR(ans)

\* C24: at the rerun/continue/exit question, r and every unrecognized answer
\* execute the same snippet again and lead to the same question, s and the
\* empty answer end the section with continue; an unrecognized answer to the
\* run/skip/exit question leads to that question again with nothing executed;
\* a step executes the snippet exactly when it answers r, or answers the
\* rerun question with something unrecognized.
C24_RerunLoop ==
    [][/\ (Answered("rerun") /\ (IsR(lastAns') \/ Unrecognized(lastAns'))) =>
             /\ Executes
             /\ hist'[Len(hist')].code = CodeText(Sec.Lines)
             /\ hist'[Len(hist')].fam = Family(Language(Sec.Lines[1]))
             /\ pc' = "code_ran"
             /\ i' = i
       /\ (Answered("rerun") /\ IsSkip(lastAns')) =>
             /\ hist' = hist
             /\ pc' = "loop"
             /\ i' = i + 1
             /\ ret' = "none"
       /\ (Answered("run") /\ Unrecognized(lastAns')) =>
             /\ hist' = hist
             /\ w' = w
             /\ pc' = "code_ask"
             /\ i' = i
       /\ Executes <=>
             \/ (Answered("run") \/ Answered("rerun")) /\ IsR(lastAns')
             \/ Answered("rerun") /\ Unrecognized(lastAns')]_vars

\* C24 witness: the first answer at a snippet was not recognized and the
\* question came again; the snippet then ran, and the answer q to the rerun
\* question ran it a second time, with the rerun question due again.
C24_Witness ==
    /\ doc = BSetBar
    /\ pc = "code_ran"
    /\ i = 1
    /\ asked = <<[q |-> "run", at |-> 1], [q |-> "run", at |-> 1], [q |-> "rerun", at |-> 1]>>
    /\ lastAns = <<"q">>
    /\ Len(hist) = 2
    /\ hist[1].code = <<LSetBar>> /\ hist[2].code = <<LSetBar>>
    /\ Len(SelectSeq(w, LAMBDA it : it.k = "output")) = 2

(***************************************************************************)
(* Claims about the tags directive, checked in SpecTags.                   *)
(***************************************************************************)
TagsLines == {p \in 1..Len(doc) : kinds[p] = "tags"}

\* The tokens between the first "(" of a line and the ")" that ends it.
Parenthesized(line) ==
    LET open == PrefixLenNotIn(line, {"("})
    IN  Fields(SubSeq(line, open + 2, Len(line) - 1))

ClosedAtEnd(line) == line # <<>> /\ line[Len(line)] = ")"

\* C25: parseTags returns an error or the non-empty list of the tokens found
\* between the parentheses, in order; no token between the parentheses and
\* no closing parenthesis at the end of the line are errors.
C25_TagsNameATag ==
    \A p \in TagsLines :
        LET r == parseTags(TrimSpace(doc[p]))
        IN  /\ ~r.err => r.tags # <<>> /\ r.tags = Parenthesized(TrimSpace(doc[p]))
            /\ ~ClosedAtEnd(TrimSpace(doc[p])) => r.err
            /\ (ClosedAtEnd(TrimSpace(doc[p])) /\ Parenthesized(TrimSpace(doc[p])) = <<>>) => r.err

(***************************************************************************)
(* Claims about the prompt directive's grammar, checked in SpecGrammar.    *)
(***************************************************************************)
\* The directive's grammar: a name, then a quoted text, then at most one closed
\* option group, then at most one default token, in one pair of parentheses.
InGrammar(c) ==
    /\ c.name # <<>>
    /\ c.text # <<>>
    /\ c.group = <<>> \/ c.group[Len(c.group)] = "]"
    /\ Len(Fields(c.default)) <= 1
    /\ ~(c.swap /\ c.group # <<>> /\ c.default # <<>>)
    /\ c.close

\* C26: parsePrompt succeeds exactly on the lines of the grammar and returns
\* the name, the text, the tokens of the option group in order and the
\* default; a missing name, a missing text, a default before the option group
\* and a missing closing parenthesis give an error and no descriptor.
C26_PromptGrammar ==
    pc = "done" =>
        \A c \in PromptParts :
            PromptLine(c) = doc[1] =>
                IF InGrammar(c)
                THEN hist[1].res =
                        [err |-> FALSE, VarName |-> c.name, Text |-> c.text,
                         Options |-> Fields(SubSeq(c.group, 2, Len(c.group) - 1)),
                         Default |-> c.default]
                ELSE hist[1].res = NoPrompt

\* C26 witness: the directive with name, text, options y n and default n was
\* parsed into its four parts.
C26_Witness ==
    /\ pc = "done"
    /\ doc = <<LPromptOpt>>
    /\ hist[1].res = [err |-> FALSE, VarName |-> <<"NAME">>, Text |-> <<"\"q\"">>,
                       Options |-> <<"y", "n">>, Default |-> <<"n">>]

(***************************************************************************)
(* Claims about tag accumulation, checked in SpecParse.                    *)
(***************************************************************************)
LastHeader(ks) == Max({0} \cup {p \in 1..Len(ks) : ks[p] = "header"})

\* The tokens of the tags directives of lines p.. of d, concatenated in order.
RECURSIVE TagsFrom(_, _, _)
TagsFrom(d, ks, p) ==
    IF p > Len(d) THEN <<>>
    ELSE (IF ks[p] = "tags" THEN parseTags(TrimSpace(d[p])).tags ELSE <<>>)
             \o TagsFrom(d, ks, p + 1)

\* D1..Dk: the directives that follow the most recent header.
Accumulated(d, ks) == TagsFrom(d, ks, LastHeader(ks) + 1)

\* C27: when the scanner has taken a line, the pending tags are the tokens of
\* the directives since the most recent header, in order; after a directive
\* the section then open carries them, and a Code or Prompt section opened by
\* the line carries them.
C27_TagAccumulation ==
    [][pc = "scan" /\ Len(doc') = Len(doc) + 1 =>
          LET kind == kinds'[Len(kinds')]
              acc == Accumulated(doc', kinds')
          IN  /\ scan'.pendingTags = acc
              /\ kind = "tags" => scan'.current.Tags = acc
              /\ kind = "fence_open" =>
                    scan'.current.Type = "Code" /\ scan'.current.Tags = acc
              /\ kind = "prompt" =>
                    /\ scan'.sections[Len(scan'.sections)].Type = "Prompt"
                    /\ scan'.sections[Len(scan'.sections)].Tags = acc]_vars

\* C27 witness: a header, the directives foo and always, then a prompt; the
\* Header section and the Prompt section both carry foo, always.
C27_Witness ==
    /\ pc = "scan"
    /\ doc = <<LHeaderA, LTagsFoo, LTagsAlways, LPrompt>>
    /\ scan.sections = <<NewSection("Header", <<LHeaderA>>, <<"foo", "always">>),
                         NewSection("Prompt", <<LPrompt>>, <<"foo", "always">>)>>

(***************************************************************************)
(* Claims about the shape of Code sections, checked in SpecParse.          *)
(***************************************************************************)
IsFence(line) == HasPrefix(TrimSpace(line), codeFence)

\* C28: every Code section parseSections returns has at least two lines, a
\* fence delimiter as its first and as its last line, and the snippet text
\* taken from it is the lines strictly between the two.
C28_CodeSectionShape ==
    pc = "done" =>
        \A j \in 1..Len(filtered) :
            filtered[j].Type = "Code" =>
                /\ Len(filtered[j].Lines) >= 2
                /\ IsFence(filtered[j].Lines[1])
                /\ IsFence(filtered[j].Lines[Len(filtered[j].Lines)])
                /\ \A p \in 1..Len(CodeText(filtered[j].Lines)) :
                      ~IsFence(CodeText(filtered[j].Lines)[p])

(***************************************************************************)
(* Claims about normalizeAnchor, checked in SpecAnchor.                    *)
(***************************************************************************)
\* C29: normalizeAnchor applied to its own result returns that result.
C29_AnchorIdempotent ==
    (pc = "done" /\ hist[1].ev = "normalizeAnchor") =>
        /\ hist[2].code = <<hist[1].res>>
        /\ hist[2].res = hist[1].res

\* C29 witness: the heading A, blank, hyphen was normalized to a- (lower
\* case, the blank made a hyphen, the two hyphens made one), and a- was
\* normalized to itself.
C29_Witness ==
    /\ pc = "done"
    /\ doc = <<<<"A", " ", "-">>>>
    /\ hist[1].res = <<"a", "-">>
    /\ hist[2].res = <<"a", "-">>

(***************************************************************************)
(* Claims about the table of contents, checked in SpecTOC.                 *)
(***************************************************************************)
HeaderSections == SelectSeq(Segment(doc), LAMBDA sec : sec.Type = "Header")

\* C30: PrintTOC returns nil and has written one line per Header section of
\* the segmentation, in order: 2*(level-1) blanks, the heading text and its
\* normalized anchor, level being the number of leading # of the header line
\* and at least 1.
C30_TableOfContents ==
    pc = "done" =>
        /\ ret = "nil"
        /\ Len(w) = Len(HeaderSections)
        /\ \A n \in 1..Len(HeaderSections) :
              LET line == HeaderSections[n].Lines[1]
              IN  /\ LeadingHashes(line) >= 1
                  /\ n <= Len(w) =>
                        w[n] = Item("toc",
                                    [indent |-> 2 * (LeadingHashes(line) - 1),
                                     header |-> TrimSpace(TrimLeftHash(line)),
                                     anchor |-> normalizeAnchor(TrimSpace(TrimLeftHash(line)))])

(***************************************************************************)
(* Claims about the reach of tags, checked in SpecParse.                   *)
(***************************************************************************)
\* The tokens of the tags directives of lines p..q of d, concatenated in order.
RECURSIVE TagsIn(_, _, _, _)
TagsIn(d, ks, p, q) ==
    IF p > q THEN <<>>
    ELSE (IF ks[p] = "tags" THEN parseTags(TrimSpace(d[p])).tags ELSE <<>>)
             \o TagsIn(d, ks, p + 1, q)

IsPrefixOf(a, b) == Len(a) <= Len(b) /\ SubSeq(b, 1, Len(a)) = a

\* The tags accumulated between the last header line before line f and line f.
InEffectAt(f) ==
    TagsIn(doc, kinds, Max({0} \cup {h \in HeaderPos : h < f}) + 1, f - 1)

\* C31: every Code, Prompt and Text section carries the tags accumulated
\* between the last header line before it and its first line.
C31_TagsUntilNextHeader ==
    \A j \in 1..Len(AllSections) :
        AllSections[j].Type # "Header" =>
            IsPrefixOf(InEffectAt(SecFirst(j)), AllSections[j].Tags)

(***************************************************************************)
(* Claims about lines inside a code fence, checked in SpecParse.           *)
(***************************************************************************)
\* The Code section the scanner is in, after it has taken a line: the
\* current section, or the one just appended by the closing fence.
CodeAfterStep ==
    IF scan'.inCodeBlock THEN scan'.current
    ELSE scan'.sections[Len(scan'.sections)]

\* C32: a line the scanner takes while inside a code fence is appended
\* unchanged to the current Code section; it changes neither the pending
\* tags nor any other section, and only a fence line closes the block.
C32_FenceLinesVerbatim ==
    [][(pc = "scan" /\ scan.inCodeBlock /\ Len(doc') = Len(doc) + 1) =>
          /\ Len(scan'.sections) >= Len(scan.sections)
          /\ SubSeq(scan'.sections, 1, Len(scan.sections)) = scan.sections
          /\ CodeAfterStep.Type = "Code"
          /\ CodeAfterStep.Lines = Append(scan.current.Lines, doc'[Len(doc')])
          /\ CodeAfterStep.Tags = scan.current.Tags
          /\ scan'.pendingTags = scan.pendingTags
          /\ scan'.inCodeBlock <=> ~IsFence(doc'[Len(doc')])]_vars

(***************************************************************************)
(* Claims about malformed tags directives, checked in SpecTags.            *)
(***************************************************************************)
\* C33: when the scanner takes a line with the tags prefix that parseTags
\* rejects, the step leaves a trace: in the scanner's state, in what is
\* written, or in the value returned.
C33_NoSilentDirectiveError ==
    [][(/\ pc = "scan"
        /\ Len(doc') = Len(doc) + 1
        /\ kinds'[Len(kinds')] = "tags"
        /\ parseTags(TrimSpace(doc'[Len(doc')])).err) =>
          \/ scan' # scan
          \/ w' # w
          \/ ret' # ret
          \/ pc' # pc]_vars

(***************************************************************************)
(* Claims about the filter as a selection, checked in SpecParse.           *)
(***************************************************************************)
Unfiltered == parseSections(doc, <<>>, <<>>)

\* C34: what parseSections returns is a subsequence of the unfiltered
\* segmentation of the same document, in order, each section unchanged and
\* taken at most once; with an empty start anchor and no tags it is the whole
\* segmentation; the same inputs give the same result.
C34_FilterOnlySelects ==
    pc = "done" =>
        /\ Len(picked) = Len(filtered)
        /\ \A k \in 1..Len(filtered) :
              /\ picked[k] \in 1..Len(Unfiltered)
              /\ filtered[k] = Unfiltered[picked[k]]
              /\ k > 1 => picked[k - 1] < picked[k]
        /\ (start = <<>> /\ userTags = <<>>) => filtered = Unfiltered
        /\ filtered = parseSections(doc, start, userTags)

\* C34 witness: of three sections the filter returned the second and the
\* third, for the start anchor b and the tag foo.
C34_Witness ==
    /\ pc = "done"
    /\ start = <<"b">>
    /\ userTags = <<"foo">>
    /\ Len(Unfiltered) = 3
    /\ picked = <<2, 3>>
    /\ filtered = <<Unfiltered[2], Unfiltered[3]>>

(***************************************************************************)
(* Claims about GetRunner under concurrency, checked in SpecRace.          *)
(***************************************************************************)
ProcsOf(fam) == {p \in 1..Len(race.procs) : race.procs[p] = fam}

Returned(fam) ==
    {t \in 1..MaxThreads : race.th[t].at = "done" /\ Family(race.th[t].lang) = fam}

\* C35: whatever the interleaving of the calls, at most one shell process is
\* started per language family and all calls for a family that have
\* returned have returned the same process.
C35_SingleInitialization ==
    \A fam \in Families :
        /\ Cardinality(ProcsOf(fam)) <= 1
        /\ \A t1, t2 \in Returned(fam) : race.th[t1].result = race.th[t2].result

\* C36: a resolution of a prompt that fails leaves the environment as it
\* was; the environment changes only in the step that resolves a prompt
\* successfully, and that step sets VarName, and nothing else, to the
\* resolved response and moves on to the next section.
C36_EnvOnlyOnSuccess ==
    [][/\ (AtPrompt /\ i' = i) => environ' = environ
       /\ (AtPrompt /\ i' = i + 1) =>
             /\ ~Directive.err
             /\ Lookup(environ', Directive.VarName) = Resolved(lastAns')
             /\ DOMAIN environ' = DOMAIN environ \cup {Directive.VarName}
             /\ \A key \in DOMAIN environ :
                   key # Directive.VarName => environ'[key] = environ[key]
       /\ environ' # environ =>
             /\ AtPrompt
             /\ Len(asked') = Len(asked) + 1
             /\ Accepted(lastAns')
             /\ i' = i + 1]_vars

\* A z was refused for the directive with options y n and left the
\* environment empty; the y that followed was stored under NAME.
C36_Witness ==
    /\ pc = "loop"
    /\ i = 2
    /\ filtered[1].Lines = <<LPromptOptOnly>>
    /\ lastAns = <<"y">>
    /\ environ = Put(NoEnv, <<"NAME">>, <<"y">>)
    /\ w = <<Item("prompterr", <<>>), Newline>>
    /\ Len(asked) = 2

\* C37: a streaming Run whose snippet was executed, every command of it
\* having terminated and the shell still there, returns: it is not left
\* blocked reading for the marker line, whatever the snippet wrote.
C37_RunReturns ==
    \A e \in RunsOn("bash") :
        (hist[e].res.ran /\ hist[e].res.sh.alive) =>
            /\ ~hist[e].res.hang
            /\ hist[e].res.found

\* C38: the run ends when the operator's answers let it: every step of the
\* loop over the filtered sections ends the run, goes on to the next
\* section, stops at the first question of a Code section, or has asked the
\* operator a question; no step goes back or skips a section.  With
\* finitely many sections, a run that does not end is then a run that asks
\* without end.
C38_RunProgresses ==
    [][(pc \in {"loop", "code_ask", "code_ran"}) =>
          /\ i' \in {i, i + 1}
          /\ (\/ pc' = "done"
              \/ i' = i + 1
              \/ pc = "loop" /\ pc' = "code_ask"
              \/ Len(asked') = Len(asked) + 1)]_vars

(***************************************************************************)
(* Claims about the lines of the segmentation, checked in SpecSegment.     *)
(***************************************************************************)
SectionLines == Flatten([j \in 1..Len(AllSections) |-> AllSections[j].Lines])

SectionsShaped ==
    \A j \in 1..Len(AllSections) :
        /\ AllSections[j].Lines # <<>>
        /\ AllSections[j].Type = "Prompt" => Len(AllSections[j].Lines) = 1

====
